---- MODULE Spec2Model ----
(***************************************************************************)
(* Peak Finance: the AI-advisor guardrail core.                            *)
(*                                                                         *)
(* Text is modelled as a sequence of one-character strings, so that        *)
(* str.lower(), str.strip() and the substring test `word in msg` are       *)
(* computed character by character as Python computes them.                *)
(***************************************************************************)
EXTENDS Integers, Sequences, FiniteSets, TLC

VARIABLES
    settings,   \* app.settings.settings: the process-wide configuration
    users,      \* users table: user id -> row
    expenses,   \* expenses table (sequence of rows, insertion order)
    debts,      \* debt_accounts table
    goals,      \* goals table
    ai_rules,   \* ai_rules table: user id -> row or None
    audit,      \* audit_logs table (sequence of events written by log_action)
    req,        \* the /ai/ask request being served and its outcome
    served,     \* number of /ai/ask requests accepted so far
    updates,    \* number of profile updates accepted so far
    http,       \* the last /profile request and the status it was answered with
    fn_args,    \* arguments of the pure function under test
    fn_ret      \* its result, boxed; Null before the call

vars == << settings, users, expenses, debts, goals, ai_rules, audit, req,
           served, updates, http, fn_args, fn_ret >>

dbvars == << users, expenses, debts, goals, ai_rules >>

\* Python's None, a NULL column, "no value yet".  A value that may be absent
\* is kept boxed: Null when absent, << v >> when present.
Null == << >>

val(boxed) == boxed[1]

-----------------------------------------------------------------------------
(* Bounds of the model *)

\* longest question, counted in vocabulary segments
MaxSegs == 3

\* /ai/ask requests served in one behaviour
MaxRequests == 1

\* profile updates accepted in one behaviour
MaxUpdates == 1

\* attempts a backend call without a retry budget is followed for
MaxWait == 3

-----------------------------------------------------------------------------
(* Characters and the Python string methods used by the code *)

UPPER ==
    <<"A", "B", "C", "D", "E", "F", "G", "H", "I", "J", "K", "L", "M", "N", "O", "P", "Q", "R", "S", "T", "U", "V", "W", "X", "Y", "Z">>
LOWER ==
    <<"a", "b", "c", "d", "e", "f", "g", "h", "i", "j", "k", "l", "m", "n", "o", "p", "q", "r", "s", "t", "u", "v", "w", "x", "y", "z">>
DIGITS ==
    <<"0", "1", "2", "3", "4", "5", "6", "7", "8", "9">>

\* str.lower() on one character
lower_char(c) ==
    IF \E i \in 1..26 : UPPER[i] = c
    THEN LOWER[CHOOSE i \in 1..26 : UPPER[i] = c]
    ELSE c

\* str.lower()
lower(s) == [i \in 1..Len(s) |-> lower_char(s[i])]

\* str.strip(): drop leading and trailing blanks
RECURSIVE lstrip(_)
lstrip(s) == IF s # << >> /\ Head(s) = " " THEN lstrip(Tail(s)) ELSE s

RECURSIVE rstrip(_)
rstrip(s) ==
    IF s # << >> /\ s[Len(s)] = " " THEN rstrip(SubSeq(s, 1, Len(s) - 1)) ELSE s

strip(s) == rstrip(lstrip(s))

\* `word in msg`: word occurs in msg as a contiguous substring
contains(msg, word) ==
    \E i \in 0..(Len(msg) - Len(word)) :
        \A j \in 1..Len(word) : msg[i + j] = word[j]

\* any(word in msg for word in words)
any_in(msg, words) == \E k \in 1..Len(words) : contains(msg, words[k])

-----------------------------------------------------------------------------
(* services/ai.py: intent categories and the classifier *)

IntentCategory ==
    { "general_advice", "budget_help", "loan_question", "goal_planning",
      "spending_query", "loan_approval_request", "ekyc_request",
      "cib_access_request", "unknown" }

\* the blocked set with the credit-bureau category left out
BLOCKED_INTENTS_without_cib == { "loan_approval_request", "ekyc_request" }

BLOCKED_INTENTS ==
    { "loan_approval_request", "ekyc_request", "cib_access_request" }

LOAN_APPROVAL_WORDS ==
    << <<"a", "p", "p", "r", "o", "v", "e">>,
       <<"a", "p", "p", "r", "o", "v", "a", "l">>,
       <<"g", "r", "a", "n", "t", " ", "l", "o", "a", "n">>,
       <<"g", "i", "v", "e", " ", "m", "e", " ", "l", "o", "a", "n">> >>

EKYC_WORDS ==
    << <<"e", "k", "y", "c">>,
       <<"e", "-", "k", "y", "c">>,
       <<"k", "y", "c">>,
       <<"v", "e", "r", "i", "f", "y", " ", "i", "d", "e", "n", "t", "i", "t", "y">>,
       <<"i", "d", " ", "v", "e", "r", "i", "f", "i", "c", "a", "t", "i", "o", "n">> >>

CIB_WORDS ==
    << <<"c", "i", "b">>,
       <<"c", "r", "e", "d", "i", "t", " ", "b", "u", "r", "e", "a", "u">>,
       <<"c", "r", "e", "d", "i", "t", " ", "r", "e", "p", "o", "r", "t">>,
       <<"c", "r", "e", "d", "i", "t", " ", "s", "c", "o", "r", "e">> >>

\* the budget keywords without the one that is part of the spending keywords
BUDGET_WORDS_without_spend ==
    << <<"b", "u", "d", "g", "e", "t">>,
       <<"e", "x", "p", "e", "n", "s", "e">> >>

BUDGET_WORDS ==
    << <<"b", "u", "d", "g", "e", "t">>,
       <<"e", "x", "p", "e", "n", "s", "e">>,
       <<"s", "p", "e", "n", "d">> >>

LOAN_WORDS ==
    << <<"l", "o", "a", "n">>,
       <<"e", "m", "i">>,
       <<"d", "e", "b", "t">>,
       <<"b", "o", "r", "r", "o", "w">> >>

GOAL_WORDS ==
    << <<"g", "o", "a", "l">>,
       <<"s", "a", "v", "e">>,
       <<"s", "a", "v", "i", "n", "g">> >>

SPENDING_WORDS ==
    << <<"s", "a", "f", "e", " ", "t", "o", " ", "s", "p", "e", "n", "d">>,
       <<"c", "a", "n", " ", "i", " ", "s", "p", "e", "n", "d">>,
       <<"a", "f", "f", "o", "r", "d">> >>

ADVICE_WORDS ==
    << <<"a", "d", "v", "i", "c", "e">>,
       <<"h", "e", "l", "p">>,
       <<"s", "u", "g", "g", "e", "s", "t">> >>

\* the classifier with the allowed groups tested before the blocked ones
classify_intent_allowed_first(message) ==
    LET msg_lower == lower(message) IN
    IF any_in(msg_lower, BUDGET_WORDS) THEN "budget_help"
    ELSE IF any_in(msg_lower, LOAN_WORDS) THEN "loan_question"
    ELSE IF any_in(msg_lower, GOAL_WORDS) THEN "goal_planning"
    ELSE IF any_in(msg_lower, SPENDING_WORDS) THEN "spending_query"
    ELSE IF any_in(msg_lower, ADVICE_WORDS) THEN "general_advice"
    ELSE IF any_in(msg_lower, LOAN_APPROVAL_WORDS) THEN "loan_approval_request"
    ELSE IF any_in(msg_lower, EKYC_WORDS) THEN "ekyc_request"
    ELSE IF any_in(msg_lower, CIB_WORDS) THEN "cib_access_request"
    ELSE "unknown"

\* the classifier matching the message as typed, without lower-casing it
classify_intent_case_sensitive(message) ==
    LET msg_lower == message IN
    IF any_in(msg_lower, LOAN_APPROVAL_WORDS) THEN "loan_approval_request"
    ELSE IF any_in(msg_lower, EKYC_WORDS) THEN "ekyc_request"
    ELSE IF any_in(msg_lower, CIB_WORDS) THEN "cib_access_request"
    ELSE IF any_in(msg_lower, BUDGET_WORDS) THEN "budget_help"
    ELSE IF any_in(msg_lower, LOAN_WORDS) THEN "loan_question"
    ELSE IF any_in(msg_lower, GOAL_WORDS) THEN "goal_planning"
    ELSE IF any_in(msg_lower, SPENDING_WORDS) THEN "spending_query"
    ELSE IF any_in(msg_lower, ADVICE_WORDS) THEN "general_advice"
    ELSE "unknown"

classify_intent(message) ==
    LET msg_lower == lower(message) IN
    IF any_in(msg_lower, LOAN_APPROVAL_WORDS) THEN "loan_approval_request"
    ELSE IF any_in(msg_lower, EKYC_WORDS) THEN "ekyc_request"
    ELSE IF any_in(msg_lower, CIB_WORDS) THEN "cib_access_request"
    ELSE IF any_in(msg_lower, BUDGET_WORDS) THEN "budget_help"
    ELSE IF any_in(msg_lower, LOAN_WORDS) THEN "loan_question"
    ELSE IF any_in(msg_lower, GOAL_WORDS) THEN "goal_planning"
    ELSE IF any_in(msg_lower, SPENDING_WORDS) THEN "spending_query"
    ELSE IF any_in(msg_lower, ADVICE_WORDS) THEN "general_advice"
    ELSE "unknown"

\* the gate with the regulated-mode test dropped
is_intent_allowed_any_mode(intent, is_regulated) ==
    IF intent \in BLOCKED_INTENTS THEN FALSE ELSE TRUE

is_intent_allowed(intent, is_regulated) ==
    IF intent \in BLOCKED_INTENTS /\ ~is_regulated THEN FALSE ELSE TRUE

-----------------------------------------------------------------------------
(* Questions: concatenations of segments of user text *)

Vocabulary ==
    { <<"a", "p", "p", "r", "o", "v", "e">>,
      <<"G", "r", "a", "n", "t", " ">>,
      <<"e", "-", "K", "Y", "C">>,
      <<"C", "r", "e", "d", "i", "t", " ", "S", "c", "o", "r", "e">>,
      <<"b", "u", "d", "g", "e", "t">>,
      <<"c", "a", "n", " ", "I", " ", "s", "p", "e", "n", "d">>,
      <<"S", "a", "f", "e", " ", "t", "o", " ", "s", "p", "e", "n", "d">>,
      <<"a", "f", "f", "o", "r", "d">>,
      <<"l", "o", "a", "n">>,
      <<"b", "o", "r", "r", "o", "w">>,
      <<"g", "o", "a", "l">>,
      <<"h", "e", "l", "p">>,
      <<"h", "i", " ">> }

\* every text of at most n segments, the empty text included
RECURSIVE Concats(_)
Concats(n) ==
    IF n = 0 THEN { << >> }
    ELSE LET shorter == Concats(n - 1) IN
         shorter \cup { m \o s : m \in shorter, s \in Vocabulary }

-----------------------------------------------------------------------------
(* schemas.py: the AIInsight response model *)

\* fields AIInsight declares, all of them required (no default)
AIInsight_fields == { "answer", "intent", "is_blocked", "meta" }

\* AIInsight(**kwargs): pydantic validates the keyword arguments against the
\* declared fields; a missing required field raises ValidationError, an
\* undeclared keyword is ignored.
AIInsight(kwargs) ==
    IF AIInsight_fields \subseteq DOMAIN kwargs
    THEN [raised |-> FALSE,
          value  |-> [f \in AIInsight_fields |-> kwargs[f]]]
    ELSE [raised |-> TRUE, exc |-> "ValidationError"]

-----------------------------------------------------------------------------
(* services/ai.py: generate_insights *)

RECURSIVE sum(_)
sum(s) == IF s = << >> THEN 0 ELSE Head(s) + sum(Tail(s))

abs(x) == IF x < 0 THEN 0 - x ELSE x

\* goals[:3]
first3(goals_) == SubSeq(goals_, 1, IF Len(goals_) < 3 THEN Len(goals_) ELSE 3)

\* the loop over goals[:3]: one constructor call per lagging goal, in order
RECURSIVE goal_insights(_)
goal_insights(gs) ==
    IF gs = << >> THEN << >>
    ELSE LET goal == Head(gs) IN
         (IF goal.target_amount > 0 /\ 100 * goal.saved_amount < 25 * goal.target_amount
          THEN << AIInsight([type     |-> "goal",
                             title    |-> << "Goal", goal.name >>,
                             message  |-> << "Only % complete", goal.saved_amount, goal.target_amount >>,
                             severity |-> "info"]) >>
          ELSE << >>)
         \o goal_insights(Tail(gs))

\* Amounts are whole currency units; a ratio test a / b > 0.4 is computed as
\* 10 * a > 4 * b, and saved / target * 100 < 25 as 100 * saved < 25 * target.
generate_insights(user, expenses_, debts_, goals_, rules) ==
    LET income         == val(user.monthly_net_income)
        total_expenses == sum([i \in 1..Len(expenses_) |-> expenses_[i].amount])
        total_debt_emi == sum([i \in 1..Len(debts_) |-> debts_[i].current_emi])
        surplus        == income - total_expenses - total_debt_emi
        budget ==
            IF surplus < 0
            THEN << AIInsight([type     |-> "budget",
                               title    |-> "Budget Deficit",
                               message  |-> << "You're spending more than you earn", abs(surplus) >>,
                               severity |-> "critical"]) >>
            ELSE IF surplus > 0
            THEN << AIInsight([type     |-> "budget",
                               title    |-> "Positive Cash Flow",
                               message  |-> << "You have a surplus", surplus >>,
                               severity |-> "info"]) >>
            ELSE << >>
        dti_check ==
            IF income > 0 /\ 10 * total_debt_emi > 4 * income
            THEN << AIInsight([type     |-> "debt",
                               title    |-> "High Debt-to-Income Ratio",
                               message  |-> << "Your DTI is", total_debt_emi, income >>,
                               severity |-> "warning"]) >>
            ELSE << >>
        prepay ==
            IF 2 * surplus > total_debt_emi /\ debts_ # << >>
            THEN << AIInsight([type     |-> "debt",
                               title    |-> "Prepayment Opportunity",
                               message  |-> << "You could pay extra", surplus >>,
                               severity |-> "info"]) >>
            ELSE << >>
        built == budget \o dti_check \o goal_insights(first3(goals_)) \o prepay
    IN  IF user.monthly_net_income = Null
        THEN [raised |-> TRUE, exc |-> "TypeError"]
        ELSE IF \E i \in 1..Len(built) : built[i].raised
        THEN [raised |-> TRUE, exc |-> "ValidationError"]
        ELSE [raised |-> FALSE, value |-> [i \in 1..Len(built) |-> built[i].value]]

-----------------------------------------------------------------------------
(* Inputs of the pure functions *)

\* largest monthly income
MaxIncome == 5

\* most expense rows, and most debt rows, of one user
MaxRows == 2

\* most goal rows of one user
MaxGoals == 4

ExpenseAmounts == { 1, 2 }

EmiAmounts == { 0, 1, 2 }

GoalValues ==
    { [name |-> "car",  target_amount |-> 4, saved_amount |-> 0],
      [name |-> "hajj", target_amount |-> 4, saved_amount |-> 1] }

SeqsUpTo(S, n) == UNION { [1..k -> S] : k \in 0..n }

\* longest loan term, in months
MaxTerm == 3

\* largest principal and largest instalment
MaxPrincipal == 3

\* annual_rate_pct: monthly rates of -2, -1, 0, 1/2 and 1
AnnualRates == { 0 - 2400, 0 - 1200, 0, 600, 1200 }

\* bodies sent to the calculation endpoints, valid and invalid
LoanPreAssessmentBodies ==
    [ income                : { 0, 5, 10 },
      existing_monthly_debt : { 0, 1 },
      annual_rate_pct       : { 0, 10, 598 },
      term_months           : { 0, 1, 2 } ]

LoanPayoffPlanBodies ==
    [ principal       : { 0, 3 },
      annual_rate_pct : { 0, 600 },
      term_months     : { 0, 1, 2 } ]
    \cup
    [ principal       : { 3 },
      annual_rate_pct : { 600 },
      term_months     : { 2 },
      extra_payment   : { 0 - 1, 1 } ]

InflationForecastBodies ==
    [ current_price   : { 0, 1000 },
      annual_cpi_rate : { 0 - 1, 0, 7 },
      years           : { 0, 1, 5, 31 } ]

\* the stored income as get_dashboard may find it
DashboardIncomes == { Null, << 0 >>, << 3 >>, << 50000 >> }

\* user.ai_rules: no row, an override of 0 and an override of 30%
AIRules == { Null, [fun_ratio |-> 0], [fun_ratio |-> 30] }

\* record lists handed to build_user_context; several of them have the same
\* totals
ContextExpenses ==
    SeqsUpTo({ [name |-> "rent", amount |-> 1],
               [name |-> "food", amount |-> 1],
               [name |-> "food", amount |-> 2] }, 2)

ContextDebts ==
    { << >>,
      << [name |-> "car loan", current_emi |-> 2] >>,
      << [name |-> "car loan", current_emi |-> 1],
         [name |-> "card", current_emi |-> 1] >> }

ContextGoals ==
    { << >>,
      << [name |-> "car",  target_amount |-> 4, saved_amount |-> 0],
         [name |-> "hajj", target_amount |-> 4, saved_amount |-> 1] >>,
      << [name |-> "hajj", target_amount |-> 4, saved_amount |-> 1],
         [name |-> "car",  target_amount |-> 4, saved_amount |-> 0] >> }

-----------------------------------------------------------------------------
(* settings.py *)

AI_TIMEOUT == 30

AI_MAX_RETRIES == 2

\* DEFAULT_FUN_RATIO = 0.15, kept in percent
DEFAULT_FUN_RATIO == 15

P_openai == <<"o", "p", "e", "n", "a", "i">>

P_huggingface == <<"h", "u", "g", "g", "i", "n", "g", "f", "a", "c", "e">>

P_mock == <<"m", "o", "c", "k">>

\* AI_PROVIDER as an operator may write it: exact, padded and capitalised, empty
ProviderNames ==
    { P_openai,
      <<" ", "H", "u", "g", "g", "i", "n", "g", "F", "a", "c", "e", " ">>,
      << >> }

SettingsSpace ==
    [ AI_PROVIDER          : ProviderNames,
      AI_BASE_URL          : { "" },
      AI_MODEL             : { "", "tiiuae/falcon-7b-instruct" },
      AI_API_KEY           : { "", "sk-test" },
      IS_REGULATED_PARTNER : BOOLEAN ]

-----------------------------------------------------------------------------
(* services/ai.py: AIProvider *)

\* A text is a sequence of strings; the empty text is << >>.
MOCK_BUDGET ==
    << "Based on your current financial situation, here's some guidance:" >>

MOCK_LOAN == << "When considering a loan:" >>

MOCK_GOAL == << "Tips for reaching your financial goals:" >>

MOCK_GENERIC == << "I'm here to help with:" >>

HF_NO_CONTENT ==
    << "AI service responded without content. Please try again shortly." >>

HF_NOT_INSTALLED == << "Hugging Face client is not installed." >>

\* f"AI service temporarily unavailable. Error: {str(e)}"
Unavailable(e) == << "AI service temporarily unavailable. Error: ", e >>

\* the exceptions of the model that derive from Exception
ExceptionClasses ==
    { "ImportError", "APITimeoutError", "APIConnectionError", "HfHubHTTPError",
      "IndexError", "AttributeError", "TypeError", "ValidationError" }

returns(v) == [raised |-> FALSE, value |-> v]

raises(e) == [raised |-> TRUE, exc |-> e]

\* AIProvider.__init__ taking either credential as enough
AIProvider_either_credential(s) ==
    LET provider ==
            strip(lower(IF s.AI_PROVIDER # << >> THEN s.AI_PROVIDER ELSE P_openai))
        is_configured == s.AI_API_KEY # "" \/ s.AI_MODEL # ""
    IN  [ provider        |-> provider,
          base_url        |-> s.AI_BASE_URL,
          model           |-> s.AI_MODEL,
          api_key         |-> s.AI_API_KEY,
          is_configured   |-> is_configured,
          active_provider |-> IF is_configured THEN provider ELSE P_mock ]

\* AIProvider.__init__
AIProvider(s) ==
    LET provider ==
            strip(lower(IF s.AI_PROVIDER # << >> THEN s.AI_PROVIDER ELSE P_openai))
        is_configured ==
            IF provider = P_huggingface
            THEN s.AI_API_KEY # "" /\ s.AI_MODEL # ""
            ELSE s.AI_API_KEY # "" /\ s.AI_MODEL # ""
    IN  [ provider        |-> provider,
          base_url        |-> s.AI_BASE_URL,
          model           |-> s.AI_MODEL,
          api_key         |-> s.AI_API_KEY,
          is_configured   |-> is_configured,
          active_provider |-> IF is_configured THEN provider ELSE P_mock ]

MOCK_BUDGET_WORDS ==
    << <<"b", "u", "d", "g", "e", "t">>,
       <<"s", "p", "e", "n", "d">>,
       <<"e", "x", "p", "e", "n", "s", "e">> >>

MOCK_LOAN_WORDS ==
    << <<"l", "o", "a", "n">>,
       <<"d", "e", "b", "t">>,
       <<"e", "m", "i">> >>

MOCK_GOAL_WORDS ==
    << <<"g", "o", "a", "l">>,
       <<"s", "a", "v", "e">>,
       <<"s", "a", "v", "i", "n", "g">> >>

\* the offline fallback with nothing to say when no family matches
_mock_response_silent_default(prompt, context) ==
    LET prompt_lower == lower(prompt) IN
    IF any_in(prompt_lower, MOCK_BUDGET_WORDS) THEN MOCK_BUDGET
    ELSE IF any_in(prompt_lower, MOCK_LOAN_WORDS) THEN MOCK_LOAN
    ELSE IF any_in(prompt_lower, MOCK_GOAL_WORDS) THEN MOCK_GOAL
    ELSE << >>

_mock_response(prompt, context) ==
    LET prompt_lower == lower(prompt) IN
    IF any_in(prompt_lower, MOCK_BUDGET_WORDS) THEN MOCK_BUDGET
    ELSE IF any_in(prompt_lower, MOCK_LOAN_WORDS) THEN MOCK_LOAN
    ELSE IF any_in(prompt_lower, MOCK_GOAL_WORDS) THEN MOCK_GOAL
    ELSE MOCK_GENERIC

\* OpenAI(api_key=..., timeout=..., max_retries=...): what bounds the call
openai_client(self) ==
    [ variant     |-> "openai",
      timeout     |-> << AI_TIMEOUT >>,
      max_retries |-> << AI_MAX_RETRIES >> ]

\* InferenceClient(model=..., token=...): no timeout and no retry budget
huggingface_client(self) ==
    [ variant     |-> "huggingface",
      timeout     |-> Null,
      max_retries |-> Null ]

\* What the environment does to one backend call:
\*   import_error   the client library is not installed
\*   failed         the client raised (budget exhausted, connection refused)
\*   response       the backend answered with io.response
NoIO == [kind |-> "none"]

\* the try block of _call_openai
openai_try(self, prompt, context, io) ==
    IF io.kind = "import_error" THEN raises("ImportError")
    ELSE IF io.kind = "failed" THEN raises(io.exc)
    ELSE IF io.response.choices = << >> THEN raises("IndexError")
    ELSE LET message == io.response.choices[1].message IN
         IF "content" \notin DOMAIN message THEN raises("AttributeError")
         ELSE IF message.content = Null THEN raises("AttributeError")
         ELSE returns(strip(val(message.content)))

\* _call_openai without its except clause
_call_openai_unguarded(self, prompt, context, io) ==
    openai_try(self, prompt, context, io)

_call_openai(self, prompt, context, io) ==
    LET body == openai_try(self, prompt, context, io) IN
    IF body.raised /\ body.exc \in ExceptionClasses
    THEN returns(Unavailable(body.exc))
    ELSE body

\* the try block of _call_huggingface
huggingface_try(self, prompt, context, io) ==
    IF io.kind = "import_error" THEN raises("ImportError")
    ELSE IF io.kind = "failed" THEN raises(io.exc)
    ELSE IF io.response.choices = << >> THEN returns(HF_NO_CONTENT)
    ELSE LET message == io.response.choices[1].message
             content == IF "content" \in DOMAIN message
                        THEN message.content
                        ELSE << << >> >>
         IN  IF content = Null THEN raises("AttributeError")
             ELSE LET stripped == strip(val(content)) IN
                  returns(IF stripped # << >> THEN stripped ELSE HF_NO_CONTENT)

\* _call_huggingface with only the ImportError handler
_call_huggingface_import_only(self, prompt, context, io) ==
    LET body == huggingface_try(self, prompt, context, io) IN
    IF body.raised /\ body.exc = "ImportError"
    THEN returns(HF_NOT_INSTALLED)
    ELSE body

_call_huggingface(self, prompt, context, io) ==
    LET body == huggingface_try(self, prompt, context, io) IN
    IF body.raised /\ body.exc = "ImportError"
    THEN returns(HF_NOT_INSTALLED)
    ELSE IF body.raised /\ body.exc \in ExceptionClasses
    THEN returns(Unavailable(body.exc))
    ELSE body

\* which branch of generate_response serves the call
generate_response_route(self) ==
    IF ~self.is_configured THEN "mock"
    ELSE IF self.provider = P_huggingface THEN "huggingface"
    ELSE "openai"

generate_response(self, prompt, context, io) ==
    LET route == generate_response_route(self) IN
    IF route = "mock" THEN returns(_mock_response(prompt, context))
    ELSE IF route = "huggingface" THEN _call_huggingface(self, prompt, context, io)
    ELSE _call_openai(self, prompt, context, io)

\* the client a configured provider builds for its backend call
backend_client(self) ==
    IF generate_response_route(self) = "huggingface"
    THEN huggingface_client(self)
    ELSE openai_client(self)

-----------------------------------------------------------------------------
(* Numbers of the calculators: a float is modelled as the exact fraction     *)
(* [n |-> numerator, d |-> denominator > 0] in lowest terms                  *)

RECURSIVE gcd(_, _)
gcd(a, b) == IF b = 0 THEN a ELSE gcd(b, a % b)

frac(n, d) ==
    LET s == IF d < 0 THEN 0 - 1 ELSE 1
        g == gcd(abs(n), abs(d))
    IN  [n |-> (s * n) \div g, d |-> (s * d) \div g]

\* float(i)
float(i) == [n |-> i, d |-> 1]

q_add(x, y) ==
    LET g == gcd(x.d, y.d) IN
    frac(x.n * (y.d \div g) + y.n * (x.d \div g), (x.d \div g) * y.d)

q_neg(x) == [n |-> 0 - x.n, d |-> x.d]

q_sub(x, y) == q_add(x, q_neg(y))

\* factors common to a numerator and the other denominator are cancelled first
q_mul(x, y) ==
    LET g1 == gcd(abs(x.n), y.d)
        g2 == gcd(abs(y.n), x.d)
    IN  IF x.n = 0 \/ y.n = 0 THEN float(0)
        ELSE [n |-> (x.n \div g1) * (y.n \div g2),
              d |-> (x.d \div g2) * (y.d \div g1)]

\* x / y for y # 0
q_div(x, y) ==
    q_mul(x, IF y.n < 0 THEN [n |-> 0 - y.d, d |-> 0 - y.n]
                        ELSE [n |-> y.d, d |-> y.n])

q_lt(x, y) == x.n * y.d < y.n * x.d

q_max(x, y) == IF q_lt(x, y) THEN y ELSE x

\* x ** k for an integer k >= 0
RECURSIVE q_pow(_, _)
q_pow(x, k) == IF k = 0 THEN float(1) ELSE q_mul(x, q_pow(x, k - 1))

RECURSIVE pow10(_)
pow10(k) == IF k = 0 THEN 1 ELSE 10 * pow10(k - 1)

\* k more decimal digits of rem / d appended to the quotient qt
RECURSIVE digits(_, _, _, _)
digits(qt, rem, d, k) ==
    IF k = 0 THEN [qt |-> qt, rem |-> rem]
    ELSE digits(10 * qt + (10 * rem) \div d, (10 * rem) % d, d, k - 1)

\* round(x, ndigits): to the nearest multiple of 10^-ndigits, ties to even
round(x, ndigits) ==
    LET lo == digits(x.n \div x.d, x.n % x.d, x.d, ndigits)
        up == \/ 2 * lo.rem > x.d
              \/ 2 * lo.rem = x.d /\ lo.qt % 2 = 1
    IN  frac(IF up THEN lo.qt + 1 ELSE lo.qt, pow10(ndigits))

\* int(x): truncation towards zero
int(x) == IF x.n >= 0 THEN x.n \div x.d ELSE 0 - ((0 - x.n) \div x.d)

-----------------------------------------------------------------------------
(* services/calculators.py: the financial formula library *)

\* r = annual_rate_pct / 12 / 100
monthly_rate(annual_rate_pct) == q_div(annual_rate_pct, float(1200))

\* emi with the zero-rate special case left out
emi_without_zero_rate_case(principal, annual_rate_pct, term_months) ==
    IF term_months < 1 \/ principal.n < 0 THEN raises("InvalidInputError")
    ELSE LET r      == monthly_rate(annual_rate_pct)
             growth == q_pow(q_add(float(1), r), term_months)
             denom  == q_sub(growth, float(1))
         IN  IF denom.n = 0 THEN raises("ZeroDivisionError")
             ELSE returns(q_div(q_mul(q_mul(principal, r), growth), denom))

\* emi: P * r * (1+r)^n / ((1+r)^n - 1), and P / n when r = 0
emi(principal, annual_rate_pct, term_months) ==
    IF term_months < 1 \/ principal.n < 0 THEN raises("InvalidInputError")
    ELSE LET r == monthly_rate(annual_rate_pct) IN
         IF r.n = 0 THEN returns(q_div(principal, float(term_months)))
         ELSE LET growth == q_pow(q_add(float(1), r), term_months)
                  denom  == q_sub(growth, float(1))
              IN  IF denom.n = 0 THEN raises("ZeroDivisionError")
                  ELSE returns(q_div(q_mul(q_mul(principal, r), growth), denom))

\* principal_from_emi computed with the zero-rate formula at every rate
principal_from_emi_flat(emi_amount, annual_rate_pct, term_months) ==
    returns(q_mul(emi_amount, float(term_months)))

\* principal_from_emi: E * ((1+r)^n - 1) / (r * (1+r)^n), and E * n when r = 0
principal_from_emi(emi_amount, annual_rate_pct, term_months) ==
    LET r == monthly_rate(annual_rate_pct) IN
    IF r.n = 0 THEN returns(q_mul(emi_amount, float(term_months)))
    ELSE LET growth == q_pow(q_add(float(1), r), IF term_months < 0 THEN 0 ELSE term_months)
             denom  == q_mul(r, growth)
         IN  IF denom.n = 0 THEN raises("ZeroDivisionError")
             ELSE returns(q_div(q_mul(emi_amount, q_sub(growth, float(1))), denom))

\* dti that guards only an income of exactly 0
dti_guarding_zero_only(monthly_debt_payment, monthly_income) ==
    IF monthly_income.n = 0 THEN float(0)
    ELSE q_div(monthly_debt_payment, monthly_income)

\* dti: debt / income, and 0 when income <= 0
dti(monthly_debt_payment, monthly_income) ==
    IF monthly_income.n <= 0 THEN float(0)
    ELSE q_div(monthly_debt_payment, monthly_income)

\* required_emi_to_finish: the EMI formula applied to the remaining balance
required_emi_to_finish(principal, annual_rate_pct, months_remaining) ==
    emi(principal, annual_rate_pct, months_remaining)

\* inflation_projection: current_cost * (1 + rate / 100) ^ years
inflation_projection(current_cost, annual_rate_pct, years) ==
    q_mul(current_cost, q_pow(q_add(float(1), q_div(annual_rate_pct, float(100))), years))

-----------------------------------------------------------------------------
(* services/ai.py: build_user_context *)

\* calculators.fun_budget: income x ratio (ratio in percent, result in 1/100)
fun_budget(income, ratio) == income * ratio

\* a query that leaves out the filter on the caller's id
filter_by_user_everyone(table, u) == table

\* db.query(Model).filter(Model.user_id == user.id).all()
RECURSIVE filter_by_user(_, _)
filter_by_user(table, u) ==
    IF table = << >> THEN << >>
    ELSE (IF Head(table).user_id = u THEN << Head(table) >> ELSE << >>)
         \o filter_by_user(Tail(table), u)

\* build_user_context with the expense rows themselves put into the summary
build_user_context_itemised(user, expenses_, debts_, goals_, ai_rules_) ==
    LET total_expenses     == sum([i \in 1..Len(expenses_) |-> expenses_[i].amount])
        total_debt_emi     == sum([i \in 1..Len(debts_) |-> debts_[i].current_emi])
        total_goal_targets == sum([i \in 1..Len(goals_) |-> goals_[i].target_amount])
        total_goal_saved   == sum([i \in 1..Len(goals_) |-> goals_[i].saved_amount])
        fun_ratio == IF ai_rules_ # Null THEN ai_rules_.fun_ratio ELSE DEFAULT_FUN_RATIO
    IN  IF user.monthly_net_income = Null THEN raises("TypeError")
        ELSE LET income == val(user.monthly_net_income) IN
             returns([ expenses         |-> expenses_,
                       monthly_income   |-> income,
                       total_expenses   |-> total_expenses,
                       total_debt_emi   |-> total_debt_emi,
                       surplus          |-> income - total_expenses - total_debt_emi,
                       fun_budget       |-> fun_budget(income, fun_ratio),
                       fun_ratio        |-> fun_ratio,
                       goals            |-> Len(goals_),
                       goal_targets     |-> total_goal_targets,
                       goal_saved       |-> total_goal_saved,
                       risk_tolerance   |-> IF user.risk_tolerance # Null
                                            THEN val(user.risk_tolerance)
                                            ELSE "Not set" ])

\* The context string is the f-string template filled with these figures;
\* formatting None with ':,.2f' raises TypeError.
build_user_context(user, expenses_, debts_, goals_, ai_rules_) ==
    LET total_expenses     == sum([i \in 1..Len(expenses_) |-> expenses_[i].amount])
        total_debt_emi     == sum([i \in 1..Len(debts_) |-> debts_[i].current_emi])
        total_goal_targets == sum([i \in 1..Len(goals_) |-> goals_[i].target_amount])
        total_goal_saved   == sum([i \in 1..Len(goals_) |-> goals_[i].saved_amount])
        fun_ratio == IF ai_rules_ # Null THEN ai_rules_.fun_ratio ELSE DEFAULT_FUN_RATIO
    IN  IF user.monthly_net_income = Null THEN raises("TypeError")
        ELSE LET income == val(user.monthly_net_income) IN
             returns([ monthly_income   |-> income,
                       total_expenses   |-> total_expenses,
                       total_debt_emi   |-> total_debt_emi,
                       surplus          |-> income - total_expenses - total_debt_emi,
                       fun_budget       |-> fun_budget(income, fun_ratio),
                       fun_ratio        |-> fun_ratio,
                       goals            |-> Len(goals_),
                       goal_targets     |-> total_goal_targets,
                       goal_saved       |-> total_goal_saved,
                       risk_tolerance   |-> IF user.risk_tolerance # Null
                                            THEN val(user.risk_tolerance)
                                            ELSE "Not set" ])

-----------------------------------------------------------------------------
(* schemas.py: the calculation schemas *)

\* MAX_DTI_RATIO = 0.4
MAX_DTI_RATIO == [n |-> 2, d |-> 5]

\* a pydantic model built from keyword arguments: a missing required field
\* raises ValidationError, an undeclared keyword is ignored
BaseModel(fields, kwargs) ==
    IF fields \subseteq DOMAIN kwargs
    THEN returns([f \in fields |-> kwargs[f]])
    ELSE raises("ValidationError")

\* request.name on a model instance
attr(request, name) ==
    IF name \in DOMAIN request THEN returns(request[name])
    ELSE raises("AttributeError")

\* Request schemas, applied by the framework before the handler is entered
LoanPreAssessmentRequest(body) ==
    IF /\ body.income > 0
       /\ body.existing_monthly_debt >= 0
       /\ body.annual_rate_pct > 0
       /\ body.term_months >= 1
    THEN returns([ income                |-> float(body.income),
                   existing_monthly_debt |-> float(body.existing_monthly_debt),
                   annual_rate_pct       |-> float(body.annual_rate_pct),
                   term_months           |-> body.term_months ])
    ELSE raises("RequestValidationError")

LoanPayoffPlanRequest(body) ==
    LET filled == body @@ [extra_payment |-> 0] IN
    IF /\ filled.principal > 0
       /\ filled.annual_rate_pct > 0
       /\ filled.term_months >= 1
       /\ filled.extra_payment >= 0
    THEN returns([ principal       |-> float(filled.principal),
                   annual_rate_pct |-> float(filled.annual_rate_pct),
                   term_months     |-> filled.term_months,
                   extra_payment   |-> float(filled.extra_payment) ])
    ELSE raises("RequestValidationError")

InflationForecastRequest(body) ==
    IF /\ body.current_price > 0
       /\ body.annual_cpi_rate >= 0
       /\ body.years >= 1
       /\ body.years <= 30
    THEN returns([ current_price   |-> float(body.current_price),
                   annual_cpi_rate |-> float(body.annual_cpi_rate),
                   years           |-> body.years ])
    ELSE raises("RequestValidationError")

\* Response schemas: every declared field is required
StressTestResult_fields == { "scenario", "new_emi", "dti", "is_affordable" }

LoanPreAssessmentResponse_fields ==
    { "dti", "affordable_emi", "estimated_principal", "stress_tests", "meta" }

LoanPayoffPlanResponse_fields ==
    { "monthly_emi", "total_interest", "total_paid", "months_saved",
      "interest_saved", "meta" }

InflationProjection_fields == { "year", "estimated_price" }

InflationForecastResponse_fields == { "projections", "meta" }

DashboardSummary_fields ==
    { "total_income", "total_fixed_expenses", "total_variable_expenses",
      "total_debt_emi", "total_savings_needed", "remaining_balance", "dti",
      "safe_to_spend", "fun_budget" }

\* services/compliance.py: the disclosure attached to calculator results
get_loan_meta == [educational_only |-> TRUE, kind |-> "loan"]

get_calc_meta == [educational_only |-> TRUE, kind |-> "calc"]

get_projection_meta == [educational_only |-> TRUE, kind |-> "projection"]

-----------------------------------------------------------------------------
(* routers/calc.py *)

\* lines 63-89: the second stress scenario and the response
loan_pre_assessment_tail(request, dti_, affordable_new_emi, principal_est, test_1) ==
    LET stress_income == q_mul(request.income, [n |-> 9, d |-> 10])
        stress_affordable_2 ==
            q_max(float(0), q_sub(q_mul(stress_income, MAX_DTI_RATIO),
                                  request.existing_monthly_debt))
        stress_principal_2 ==
            principal_from_emi(stress_affordable_2, request.annual_rate_pct,
                               request.term_months)
    IN  IF stress_principal_2.raised THEN stress_principal_2
        ELSE LET stress_dti_2 == dti(request.existing_monthly_debt, stress_income)
                 test_2 == BaseModel(StressTestResult_fields,
                              [ scenario       |-> "Income -10%",
                                dti            |-> round(stress_dti_2, 4),
                                affordable_emi |-> round(stress_affordable_2, 2),
                                principal_est  |-> round(stress_principal_2.value, 2) ])
             IN  IF test_2.raised THEN test_2
                 ELSE BaseModel(LoanPreAssessmentResponse_fields,
                         [ dti                |-> round(dti_, 4),
                           affordable_emi_cap |-> round(affordable_new_emi, 2),
                           principal_est      |-> round(principal_est, 2),
                           stress_tests       |-> << test_1, test_2.value >>,
                           meta               |-> get_loan_meta ])

\* POST /calc/loan-pre-assessment
loan_pre_assessment(request) ==
    LET dti_ == dti(request.existing_monthly_debt, request.income)
        max_total_debt == q_mul(request.income, MAX_DTI_RATIO)
        affordable_new_emi ==
            q_max(float(0), q_sub(max_total_debt, request.existing_monthly_debt))
        principal_est ==
            principal_from_emi(affordable_new_emi, request.annual_rate_pct,
                               request.term_months)
    IN  IF principal_est.raised THEN principal_est
        ELSE LET stress_rate  == q_add(request.annual_rate_pct, float(2))
                 stress_emi_1 == emi(principal_est.value, stress_rate,
                                     request.term_months)
             IN  IF stress_emi_1.raised THEN stress_emi_1
                 ELSE LET stress_dti_1 ==
                              dti(q_add(request.existing_monthly_debt,
                                        stress_emi_1.value),
                                  request.income)
                          test_1 == BaseModel(StressTestResult_fields,
                              [ scenario       |-> "Interest rate +2%",
                                dti            |-> round(stress_dti_1, 4),
                                affordable_emi |-> round(affordable_new_emi, 2),
                                principal_est  |-> round(principal_est.value, 2) ])
                      IN  IF test_1.raised THEN test_1
                          ELSE loan_pre_assessment_tail(request, dti_,
                                  affordable_new_emi, principal_est.value,
                                  test_1.value)

\* POST /calc/loan-payoff-plan
loan_payoff_plan(request) ==
    LET principal        == attr(request, "principal")
        annual_rate_pct  == attr(request, "annual_rate_pct")
        months_remaining == attr(request, "months_remaining")
    IN  IF principal.raised THEN principal
        ELSE IF annual_rate_pct.raised THEN annual_rate_pct
        ELSE IF months_remaining.raised THEN months_remaining
        ELSE LET required_emi ==
                     required_emi_to_finish(principal.value, annual_rate_pct.value,
                                            months_remaining.value)
             IN  IF required_emi.raised THEN required_emi
                 ELSE LET total_payment ==
                              q_mul(required_emi.value, float(months_remaining.value))
                          total_interest == q_sub(total_payment, principal.value)
                      IN  BaseModel(LoanPayoffPlanResponse_fields,
                              [ required_emi   |-> round(required_emi.value, 2),
                                total_interest |-> round(total_interest, 2),
                                total_payment  |-> round(total_payment, 2),
                                meta           |-> get_calc_meta ])

\* the loop of inflation_forecast for one scenario: one InflationProjection
\* per item at the given rate
RECURSIVE scenario_projections(_, _, _)
scenario_projections(items, rate, years) ==
    IF items = << >> THEN returns(<< >>)
    ELSE LET item   == Head(items)
             future == inflation_projection(item.current_cost, rate, years)
             increase ==
                 IF item.current_cost.n > 0
                 THEN q_mul(q_div(q_sub(future, item.current_cost),
                                  item.current_cost), float(100))
                 ELSE float(0)
             built == BaseModel(InflationProjection_fields,
                         [ name           |-> item.name,
                           current_cost   |-> round(item.current_cost, 2),
                           projected_cost |-> round(future, 2),
                           increase_pct   |-> round(increase, 2) ])
         IN  IF built.raised THEN built
             ELSE LET rest == scenario_projections(Tail(items), rate, years) IN
                  IF rest.raised THEN rest
                  ELSE returns(<< built.value >> \o rest.value)

\* sum(cost(item) * item.weight for item in items)
RECURSIVE weighted_total(_, _, _)
weighted_total(items, rate, years) ==
    IF items = << >> THEN float(0)
    ELSE q_add(q_mul(inflation_projection(Head(items).current_cost, rate, years),
                     Head(items).weight),
               weighted_total(Tail(items), rate, years))

\* POST /calc/inflation-forecast
inflation_forecast(request) ==
    LET items == attr(request, "items") IN
    IF items.raised THEN items
    ELSE LET cpi_rate == attr(request, "cpi_rate") IN
         IF cpi_rate.raised THEN cpi_rate
         ELSE LET total_current == weighted_total(items.value, cpi_rate.value, 0)
                  base == scenario_projections(items.value, cpi_rate.value,
                                               request.years)
                  optimistic ==
                      scenario_projections(items.value,
                          q_max(float(0), q_sub(cpi_rate.value, float(2))),
                          request.years)
                  pessimistic ==
                      scenario_projections(items.value,
                          q_add(cpi_rate.value, float(3)), request.years)
                  total_projected ==
                      weighted_total(items.value, cpi_rate.value, request.years)
              IN  IF base.raised THEN base
                  ELSE IF optimistic.raised THEN optimistic
                  ELSE IF pessimistic.raised THEN pessimistic
                  ELSE BaseModel(InflationForecastResponse_fields,
                          [ base_scenario        |-> base.value,
                            optimistic_scenario  |-> optimistic.value,
                            pessimistic_scenario |-> pessimistic.value,
                            total_current        |-> round(total_current, 2),
                            total_projected      |-> round(total_projected, 2),
                            meta                 |-> get_projection_meta ])

\* the keyword arguments get_dashboard builds its DashboardSummary from
dashboard_totals(user, expenses_, debts_, goals_) ==
    LET total_expenses == float(sum([i \in 1..Len(expenses_) |-> expenses_[i].amount]))
        total_debt_emi == float(sum([i \in 1..Len(debts_) |-> debts_[i].current_emi]))
        total_income   == float(val(user.monthly_net_income))
        surplus        == q_sub(q_sub(total_income, total_expenses), total_debt_emi)
        dti_ratio      == dti(total_debt_emi, total_income)
        goal_allocation ==
            IF surplus.n > 0 THEN q_mul(surplus, [n |-> 1, d |-> 5]) ELSE float(0)
        safe_spend     == q_max(float(0), q_sub(surplus, goal_allocation))
        fun_budget_amt ==
            frac(fun_budget(val(user.monthly_net_income), DEFAULT_FUN_RATIO), 100)
        total_goal_target == float(sum([i \in 1..Len(goals_) |-> goals_[i].target_amount]))
        total_goal_saved  == float(sum([i \in 1..Len(goals_) |-> goals_[i].saved_amount]))
        goal_progress ==
            IF total_goal_target.n > 0
            THEN q_mul(q_div(total_goal_saved, total_goal_target), float(100))
            ELSE float(0)
        total_principal_remaining ==
            float(sum([i \in 1..Len(debts_) |-> debts_[i].principal]))
        debt_eta ==
            IF total_debt_emi.n > 0
            THEN << int(q_div(total_principal_remaining, total_debt_emi)) >>
            ELSE Null
    IN  [ total_income           |-> round(total_income, 2),
          total_expenses         |-> round(total_expenses, 2),
          surplus                |-> round(surplus, 2),
          dti                    |-> round(dti_ratio, 4),
          safe_to_spend          |-> round(safe_spend, 2),
          fun_budget             |-> round(fun_budget_amt, 2),
          goal_progress_pct      |-> round(goal_progress, 2),
          debt_payoff_eta_months |-> debt_eta ]

\* GET /calc/dashboard
get_dashboard(user, expenses_, debts_, goals_) ==
    IF user.monthly_net_income = Null THEN raises("TypeError")
    ELSE BaseModel(DashboardSummary_fields,
                   dashboard_totals(user, expenses_, debts_, goals_))

-----------------------------------------------------------------------------
(* services/audit.py and services/compliance.py *)

\* redact_pii: digits (phone, account and identity numbers) are masked
redact_pii(message) ==
    [i \in 1..Len(message) |->
        IF \E d \in 1..10 : DIGITS[d] = message[i] THEN "#" ELSE message[i]]

redact_pii_from_message(message) == redact_pii(message)

\* log_action(db, action, user, payload): one row appended to audit_logs
log_action(log, action, user_id, payload) ==
    Append(log, [action |-> action, user_id |-> user_id, payload |-> payload])

\* get_ai_meta(): the disclosure strings attached to every AI response
get_ai_meta == [educational_only |-> TRUE]

-----------------------------------------------------------------------------
(* routers/ai.py: POST /ai/ask *)

REFUSAL ==
    << "This request needs regulated capabilities (loan approval, e-KYC, or CIB access). ",
       "Peak Finance operates in educational mode, so we cannot process it." >>

\* questions put to /ai/ask: a blocked keyword next to an allowed one, an
\* allowed keyword, no keyword at all, and a phone number in the text
Questions ==
    { <<"C", "r", "e", "d", "i", "t", " ", "S", "c", "o", "r", "e", " ",
        "b", "u", "d", "g", "e", "t">>,
      <<"b", "o", "r", "r", "o", "w">>,
      <<"h", "i", " ">>,
      <<"h", "e", "l", "p", " ", "0", "1", "7">> }

\* what a backend may send back
Responses ==
    { [choices |-> << >>],
      [choices |-> << [message |-> [role |-> "assistant"]] >>],
      [choices |-> << [message |-> [role |-> "assistant", content |-> Null]] >>],
      [choices |-> << [message |-> [role |-> "assistant",
                                    content |-> << <<" ", " ">> >>]] >>],
      [choices |-> << [message |-> [role |-> "assistant",
                                    content |-> << <<" ", "o", "k", " ">> >>]] >> ] }

IdleReq ==
    [ pc       |-> "idle",   \* idle, calling, done (200) or error (500)
      user     |-> 0,
      question |-> << >>,
      intent   |-> "",
      allowed  |-> FALSE,
      meta     |-> Null,
      provider |-> Null,     \* the AIProvider object, once constructed
      context  |-> Null,     \* the context summary, once built
      call     |-> Null,     \* the backend client, once a remote call is made
      attempts |-> 0,        \* failed attempts of that call so far
      waited   |-> 0,        \* deadlines the pending call has outlived
      io       |-> NoIO,     \* how the backend call ended
      gen      |-> Null,     \* what generate_response returned or raised
      response |-> Null,     \* the AIInsight returned
      error    |-> "" ]      \* the exception the handler ended with

\* lines 31-43: classify, gate, and the disclosure metadata
ask_ai_gate(s, u, question) ==
    LET intent  == classify_intent(question)
        allowed == is_intent_allowed(intent, s.IS_REGULATED_PARTNER)
    IN  [ IdleReq EXCEPT
            !.user     = u,
            !.question = question,
            !.intent   = intent,
            !.allowed  = allowed,
            !.meta     = get_ai_meta @@ [intent         |-> intent,
                                         regulated_mode |-> s.IS_REGULATED_PARTNER] ]

\* lines 45-66: the refusal
ask_ai_blocked(r) ==
    LET built == AIInsight([answer     |-> REFUSAL,
                            intent     |-> r.intent,
                            is_blocked |-> TRUE,
                            meta       |-> r.meta])
    IN  /\ audit' = log_action(audit, "ai_request_blocked", r.user,
                        [intent   |-> r.intent,
                         question |-> redact_pii_from_message(r.question)])
        /\ req' = IF built.raised
                  THEN [r EXCEPT !.pc = "error", !.error = built.exc]
                  ELSE [r EXCEPT !.pc = "done", !.response = built.value]

\* lines 70-93: generate_response, then the audit row and the answer
ask_ai_answer(r, io) ==
    LET gen == generate_response(r.provider, r.question, r.context, io) IN
    IF gen.raised
    THEN /\ req' = [r EXCEPT !.pc = "error", !.io = io, !.gen = gen,
                             !.error = gen.exc]
         /\ audit' = audit
    ELSE LET meta  == [provider        |-> r.provider.active_provider,
                       context_summary |-> r.context] @@ r.meta
             built == AIInsight([answer     |-> gen.value,
                                 intent     |-> r.intent,
                                 is_blocked |-> FALSE,
                                 meta       |-> meta])
         IN  /\ audit' = log_action(audit, "ai_request_answered", r.user,
                             [intent   |-> r.intent,
                              question |-> redact_pii_from_message(r.question),
                              provider |-> meta.provider])
             /\ req' = IF built.raised
                       THEN [r EXCEPT !.pc = "error", !.io = io, !.gen = gen,
                                      !.meta = meta, !.error = built.exc]
                       ELSE [r EXCEPT !.pc = "done", !.io = io, !.gen = gen,
                                      !.meta = meta, !.response = built.value]

\* ask_ai, from the request to its answer or to the backend call it waits on
AskAi(u, question) ==
    /\ req.pc # "calling"
    /\ served < MaxRequests
    /\ served' = served + 1
    /\ UNCHANGED << settings, dbvars, updates, http, fn_args, fn_ret >>
    /\ LET r0 == ask_ai_gate(settings, u, question) IN
       IF ~r0.allowed THEN ask_ai_blocked(r0)
       ELSE LET provider == AIProvider(settings)
                context  == build_user_context(users[u],
                                filter_by_user(expenses, u),
                                filter_by_user(debts, u),
                                filter_by_user(goals, u),
                                ai_rules[u])
                r1 == [r0 EXCEPT !.provider = provider]
            IN  IF context.raised
                THEN /\ req' = [r1 EXCEPT !.pc = "error", !.error = context.exc]
                     /\ audit' = audit
                ELSE LET r2 == [r1 EXCEPT !.context = context.value] IN
                     IF generate_response_route(provider) = "mock"
                     THEN ask_ai_answer(r2, NoIO)
                     ELSE \E installed \in BOOLEAN :
                            IF installed
                            THEN /\ req' = [r2 EXCEPT !.pc = "calling",
                                                      !.call = backend_client(provider)]
                                 /\ audit' = audit
                            ELSE ask_ai_answer(r2, [kind |-> "import_error"])

\* the backend answers the pending call
BackendRespond(response) ==
    /\ req.pc = "calling"
    /\ ask_ai_answer(req, [kind |-> "response", response |-> response])
    /\ UNCHANGED << settings, dbvars, served, updates, http, fn_args, fn_ret >>

\* an attempt times out or cannot connect, and the client has budget to retry
BackendRetry ==
    /\ req.pc = "calling"
    /\ req.call.max_retries # Null
    /\ req.attempts < val(req.call.max_retries)
    /\ req' = [req EXCEPT !.attempts = @ + 1]
    /\ UNCHANGED << settings, dbvars, audit, served, updates, http, fn_args, fn_ret >>

\* an attempt fails with no retry left: the client raises
BackendGiveUp ==
    /\ req.pc = "calling"
    /\ req.call.max_retries # Null => req.attempts = val(req.call.max_retries)
    /\ ask_ai_answer(req,
          [kind |-> "failed",
           exc  |-> IF req.call.variant = "openai"
                    THEN "APITimeoutError" ELSE "HfHubHTTPError"])
    /\ UNCHANGED << settings, dbvars, served, updates, http, fn_args, fn_ret >>

\* a call made without a timeout is still pending after any deadline
BackendWait ==
    /\ req.pc = "calling"
    /\ req.call.timeout = Null
    /\ req.waited < MaxWait
    /\ req' = [req EXCEPT !.waited = @ + 1]
    /\ UNCHANGED << settings, dbvars, audit, served, updates, http, fn_args, fn_ret >>

-----------------------------------------------------------------------------
(* routers/profile.py: POST /profile *)

\* no /profile request has been made yet
NoRequest == [op |-> "none", status |-> 0]

\* bodies UserProfileUpdate accepts: every field is optional and unconstrained
\* (the risk_tolerance column is an Enum that takes its members by name)
ProfileUpdates ==
    { [monthly_net_income |-> Null],
      [monthly_net_income |-> << 3 >>],
      [monthly_net_income |-> << 0 - 1 >>],
      [risk_tolerance |-> << "LOW" >>] }

\* the UserProfile response model: monthly_net_income is a required float
UserProfile(user) ==
    IF user.monthly_net_income = Null
    THEN raises("ResponseValidationError")
    ELSE returns(user)

\* update_profile: the fields sent are set on the row and committed, the audit
\* row is written, and only then is the row serialised as the response
UpdateProfile(u, update_data) ==
    /\ updates < MaxUpdates
    /\ updates' = updates + 1
    /\ users' = [users EXCEPT ![u] =
                    [f \in DOMAIN @ |->
                        IF f \in DOMAIN update_data THEN update_data[f] ELSE @[f]]]
    /\ audit' = log_action(audit, "profile_updated", u, update_data)
    /\ http' = [op |-> "update_profile",
                status |-> IF UserProfile(users'[u]).raised THEN 500 ELSE 200]
    /\ UNCHANGED << settings, expenses, debts, goals, ai_rules, req, served,
                    fn_args, fn_ret >>

-----------------------------------------------------------------------------
(* routers/profile.py: expenses, debts and goals *)

\* accepted profile operations (each writes one audit row) in one behaviour
MaxOps == 2

\* ids a delete request may name
MaxId == 1

\* next primary key of a table: one more than the largest id in it
next_id(table) ==
    IF table = << >> THEN 1
    ELSE 1 + (CHOOSE m \in { table[i].id : i \in 1..Len(table) } :
                 \A i \in 1..Len(table) : table[i].id <= m)

\* ExpenseCreate: name of 1..255 characters, amount > 0, type fixed or variable
ExpenseCreate(body) ==
    IF /\ body.name # ""
       /\ body.amount > 0
       /\ body.type \in { "fixed", "variable" }
    THEN returns(body)
    ELSE raises("ValidationError")

\* DebtCreate: principal > 0, annual_rate_pct >= 0, term_months >= 1, current_emi >= 0
DebtCreate(body) ==
    IF /\ body.name # ""
       /\ body.principal > 0
       /\ body.annual_rate_pct >= 0
       /\ body.term_months >= 1
       /\ body.current_emi >= 0
    THEN returns(body)
    ELSE raises("ValidationError")

\* GoalCreate: target_amount > 0; saved_amount defaults to 0 and is >= 0;
\* priority defaults to 1 and is >= 1
GoalCreate(body) ==
    LET filled == body @@ [saved_amount |-> 0, priority |-> 1] IN
    IF /\ filled.name # ""
       /\ filled.target_amount > 0
       /\ filled.saved_amount >= 0
       /\ filled.priority >= 1
    THEN returns(filled)
    ELSE raises("ValidationError")

\* the CHECK constraints of the three tables
Expense_check(row) == row.amount >= 0

DebtAccount_check(row) ==
    /\ row.principal >= 0
    /\ row.annual_rate_pct >= 0
    /\ row.term_months >= 1
    /\ row.current_emi >= 0

Goal_check(row) ==
    /\ row.target_amount >= 0
    /\ row.saved_amount >= 0

\* Each handler is given the request and the table and yields the status of
\* the response with the table as committed: 422 when the body fails its
\* schema, 500 when the insert violates a CHECK constraint, else 201.
create_expense(u, body, table) ==
    LET expense == ExpenseCreate(body) IN
    IF expense.raised THEN [status |-> 422, table |-> table]
    ELSE LET new_expense == [ id      |-> next_id(table),
                              user_id |-> u,
                              name    |-> expense.value.name,
                              amount  |-> expense.value.amount,
                              type    |-> expense.value.type ]
         IN  IF ~Expense_check(new_expense) THEN [status |-> 500, table |-> table]
             ELSE [status |-> 201, table |-> Append(table, new_expense)]

\* create_debt storing whatever it is sent
create_debt_unvalidated(u, body, table) ==
    [status |-> 201,
     table  |-> Append(table, [ id              |-> next_id(table),
                                user_id         |-> u,
                                name            |-> body.name,
                                principal       |-> body.principal,
                                annual_rate_pct |-> body.annual_rate_pct,
                                term_months     |-> body.term_months,
                                current_emi     |-> body.current_emi ])]

create_debt(u, body, table) ==
    LET debt == DebtCreate(body) IN
    IF debt.raised THEN [status |-> 422, table |-> table]
    ELSE LET new_debt == [ id              |-> next_id(table),
                           user_id         |-> u,
                           name            |-> debt.value.name,
                           principal       |-> debt.value.principal,
                           annual_rate_pct |-> debt.value.annual_rate_pct,
                           term_months     |-> debt.value.term_months,
                           current_emi     |-> debt.value.current_emi ]
         IN  IF ~DebtAccount_check(new_debt) THEN [status |-> 500, table |-> table]
             ELSE [status |-> 201, table |-> Append(table, new_debt)]

create_goal(u, body, table) ==
    LET goal == GoalCreate(body) IN
    IF goal.raised THEN [status |-> 422, table |-> table]
    ELSE LET new_goal == [ id            |-> next_id(table),
                           user_id       |-> u,
                           name          |-> goal.value.name,
                           target_amount |-> goal.value.target_amount,
                           saved_amount  |-> goal.value.saved_amount,
                           priority      |-> goal.value.priority ]
         IN  IF ~Goal_check(new_goal) THEN [status |-> 500, table |-> table]
             ELSE [status |-> 201, table |-> Append(table, new_goal)]

\* the row with this id owned by this user, if any
owned(table, u, id) ==
    { i \in 1..Len(table) : table[i].id = id /\ table[i].user_id = u }

without(table, i) == SubSeq(table, 1, i - 1) \o SubSeq(table, i + 1, Len(table))

\* a delete that looks the row up by its id alone
delete_row_of_anyone(u, id, table) ==
    IF \A i \in 1..Len(table) : table[i].id # id
    THEN [status |-> 404, table |-> table]
    ELSE [status |-> 204,
          table  |-> without(table, CHOOSE i \in 1..Len(table) : table[i].id = id)]

\* delete_expense, delete_debt, delete_goal: 404 unless the row is the caller's
delete_row(u, id, table) ==
    IF owned(table, u, id) = { } THEN [status |-> 404, table |-> table]
    ELSE [status |-> 204,
          table  |-> without(table, CHOOSE i \in owned(table, u, id) : TRUE)]

ExpenseBodies ==
    { [name |-> "rent", amount |-> a, type |-> "fixed"] : a \in { 0 - 1, 0, 2 } }

DebtBodies ==
    { [name |-> "car loan", principal |-> 3, annual_rate_pct |-> 0,
       term_months |-> 1, current_emi |-> 1],
      [name |-> "car loan", principal |-> 0 - 1, annual_rate_pct |-> 0,
       term_months |-> 1, current_emi |-> 1],
      [name |-> "car loan", principal |-> 3, annual_rate_pct |-> 0 - 1,
       term_months |-> 1, current_emi |-> 1],
      [name |-> "car loan", principal |-> 3, annual_rate_pct |-> 0,
       term_months |-> 0, current_emi |-> 1],
      [name |-> "car loan", principal |-> 3, annual_rate_pct |-> 0,
       term_months |-> 1, current_emi |-> 0 - 1] }

GoalBodies ==
    { [name |-> "hajj", target_amount |-> 4],
      [name |-> "hajj", target_amount |-> 0],
      [name |-> "hajj", target_amount |-> 4, saved_amount |-> 0 - 1] }

\* a request answered with an error status writes no audit row
CreateExpense(u, body) ==
    LET r == create_expense(u, body, expenses) IN
    /\ r.status = 201 => Len(audit) < MaxOps
    /\ expenses' = r.table
    /\ audit' = IF r.status = 201
                THEN log_action(audit, "expense_created", u,
                                [name |-> body.name, amount |-> body.amount])
                ELSE audit
    /\ http' = [op |-> "create_expense", status |-> r.status]
    /\ UNCHANGED << settings, users, debts, goals, ai_rules, req, served,
                    updates, fn_args, fn_ret >>

CreateDebt(u, body) ==
    LET r == create_debt(u, body, debts) IN
    /\ r.status = 201 => Len(audit) < MaxOps
    /\ debts' = r.table
    /\ audit' = IF r.status = 201
                THEN log_action(audit, "debt_created", u,
                                [name |-> body.name, principal |-> body.principal])
                ELSE audit
    /\ http' = [op |-> "create_debt", status |-> r.status]
    /\ UNCHANGED << settings, users, expenses, goals, ai_rules, req, served,
                    updates, fn_args, fn_ret >>

CreateGoal(u, body) ==
    LET r == create_goal(u, body, goals) IN
    /\ r.status = 201 => Len(audit) < MaxOps
    /\ goals' = r.table
    /\ audit' = IF r.status = 201
                THEN log_action(audit, "goal_created", u,
                                [name |-> body.name, target |-> body.target_amount])
                ELSE audit
    /\ http' = [op |-> "create_goal", status |-> r.status]
    /\ UNCHANGED << settings, users, expenses, debts, ai_rules, req, served,
                    updates, fn_args, fn_ret >>

DeleteExpense(u, id) ==
    LET r == delete_row(u, id, expenses) IN
    /\ r.status = 204 => Len(audit) < MaxOps
    /\ expenses' = r.table
    /\ audit' = IF r.status = 204
                THEN log_action(audit, "expense_deleted", u, [id |-> id])
                ELSE audit
    /\ http' = [op |-> "delete_expense", status |-> r.status]
    /\ UNCHANGED << settings, users, debts, goals, ai_rules, req, served,
                    updates, fn_args, fn_ret >>

DeleteDebt(u, id) ==
    LET r == delete_row(u, id, debts) IN
    /\ r.status = 204 => Len(audit) < MaxOps
    /\ debts' = r.table
    /\ audit' = IF r.status = 204
                THEN log_action(audit, "debt_deleted", u, [id |-> id])
                ELSE audit
    /\ http' = [op |-> "delete_debt", status |-> r.status]
    /\ UNCHANGED << settings, users, expenses, goals, ai_rules, req, served,
                    updates, fn_args, fn_ret >>

DeleteGoal(u, id) ==
    LET r == delete_row(u, id, goals) IN
    /\ r.status = 204 => Len(audit) < MaxOps
    /\ goals' = r.table
    /\ audit' = IF r.status = 204
                THEN log_action(audit, "goal_deleted", u, [id |-> id])
                ELSE audit
    /\ http' = [op |-> "delete_goal", status |-> r.status]
    /\ UNCHANGED << settings, users, expenses, debts, ai_rules, req, served,
                    updates, fn_args, fn_ret >>

-----------------------------------------------------------------------------
(* The application serving requests *)

\* a registered user's row: the column defaults of the User model
NewUser == [monthly_net_income |-> << 0 >>, risk_tolerance |-> Null]

Init ==
    /\ settings \in SettingsSpace
    /\ users = [u \in {1} |-> NewUser]
    /\ expenses = << >>
    /\ debts = << >>
    /\ goals = << >>
    /\ ai_rules = [u \in {1} |-> Null]
    /\ audit = << [action |-> "user_registered", user_id |-> 1,
                   payload |-> [email |-> "u1@example.com"]] >>
    /\ req = IdleReq
    /\ served = 0
    /\ updates = 0
    /\ http = NoRequest
    /\ fn_args = Null
    /\ fn_ret = Null

Next ==
    \/ \E u \in DOMAIN users, q \in Questions : AskAi(u, q)
    \/ \E response \in Responses : BackendRespond(response)
    \/ BackendRetry
    \/ BackendGiveUp
    \/ BackendWait
    \/ \E u \in DOMAIN users, d \in ProfileUpdates : UpdateProfile(u, d)

Spec == Init /\ [][Next]_vars

-----------------------------------------------------------------------------
(* The profile endpoints, called in any order by two registered users *)

InitProfile ==
    /\ settings = [ AI_PROVIDER |-> P_openai, AI_BASE_URL |-> "",
                    AI_MODEL |-> "tiiuae/falcon-7b-instruct", AI_API_KEY |-> "",
                    IS_REGULATED_PARTNER |-> FALSE ]
    /\ users = [u \in {1, 2} |-> NewUser]
    /\ expenses = << >>
    /\ debts = << >>
    /\ goals = << >>
    /\ ai_rules = [u \in {1, 2} |-> Null]
    /\ audit = << >>
    /\ req = IdleReq
    /\ served = 0
    /\ updates = 0
    /\ http = NoRequest
    /\ fn_args = Null
    /\ fn_ret = Null

NextProfile ==
    \/ \E u \in DOMAIN users, d \in ProfileUpdates : UpdateProfile(u, d)
    \/ \E u \in DOMAIN users, b \in ExpenseBodies : CreateExpense(u, b)
    \/ \E u \in DOMAIN users, b \in DebtBodies : CreateDebt(u, b)
    \/ \E u \in DOMAIN users, b \in GoalBodies : CreateGoal(u, b)
    \/ \E u \in DOMAIN users, id \in 1..MaxId : DeleteExpense(u, id)
    \/ \E u \in DOMAIN users, id \in 1..MaxId : DeleteDebt(u, id)
    \/ \E u \in DOMAIN users, id \in 1..MaxId : DeleteGoal(u, id)

SpecProfile == InitProfile /\ [][NextProfile]_vars

-----------------------------------------------------------------------------
(* The pure functions, each applied once to an input drawn from its domain *)

InitFn ==
    /\ settings = [ AI_PROVIDER |-> P_openai, AI_BASE_URL |-> "",
                    AI_MODEL |-> "tiiuae/falcon-7b-instruct", AI_API_KEY |-> "",
                    IS_REGULATED_PARTNER |-> FALSE ]
    /\ users = [u \in {1} |-> NewUser]
    /\ expenses = << >>
    /\ debts = << >>
    /\ goals = << >>
    /\ ai_rules = [u \in {1} |-> Null]
    /\ audit = << >>
    /\ req = IdleReq
    /\ served = 0
    /\ updates = 0
    /\ http = NoRequest
    /\ fn_ret = Null
    /\ \/ \E m \in Concats(MaxSegs) :
              fn_args = [fn |-> "classify_intent", message |-> m]
       \/ \E i \in IntentCategory, r \in BOOLEAN :
              fn_args = [fn |-> "is_intent_allowed", intent |-> i,
                         is_regulated |-> r]
       \/ \E inc \in 0..MaxIncome,
             ex \in SeqsUpTo({ [amount |-> a] : a \in ExpenseAmounts }, MaxRows),
             de \in SeqsUpTo({ [current_emi |-> a] : a \in EmiAmounts }, MaxRows),
             go \in SeqsUpTo(GoalValues, MaxGoals) :
              fn_args = [fn       |-> "generate_insights",
                         user     |-> [monthly_net_income |-> << inc >>],
                         expenses |-> ex,
                         debts    |-> de,
                         goals    |-> go]
       \/ \E P \in (0 - 1)..MaxPrincipal, rate \in AnnualRates, n \in 0..MaxTerm :
              fn_args = [fn              |-> "emi",
                         principal       |-> P,
                         annual_rate_pct |-> rate,
                         term_months     |-> n]
       \/ \E E \in 0..MaxPrincipal, rate \in AnnualRates, n \in 0..MaxTerm :
              fn_args = [fn              |-> "principal_from_emi",
                         emi_amount      |-> float(E),
                         annual_rate_pct |-> rate,
                         term_months     |-> n]
       \/ \E debt \in (0..MaxIncome) \cup { 10000 },
             inc \in ((0 - 1)..MaxIncome) \cup { 50000 } :
              fn_args = [fn                   |-> "dti",
                         monthly_debt_payment |-> debt,
                         monthly_income       |-> inc]
       \/ \E inc \in { Null, << 3 >> }, rule \in AIRules,
             ex \in ContextExpenses, de \in ContextDebts, go \in ContextGoals :
              fn_args = [fn       |-> "build_user_context",
                         user     |-> [monthly_net_income |-> inc,
                                       risk_tolerance     |-> Null,
                                       ai_rules           |-> rule],
                         expenses |-> ex,
                         debts    |-> de,
                         goals    |-> go]
       \/ \E body \in LoanPreAssessmentBodies :
              fn_args = [fn |-> "loan_pre_assessment", body |-> body]
       \/ \E body \in LoanPayoffPlanBodies :
              fn_args = [fn |-> "loan_payoff_plan", body |-> body]
       \/ \E body \in InflationForecastBodies :
              fn_args = [fn |-> "inflation_forecast", body |-> body]
       \/ \E inc \in DashboardIncomes,
             ex \in SeqsUpTo({ [amount |-> a] : a \in { 1, 30000 } }, 1),
             de \in SeqsUpTo({ [current_emi |-> 5000, principal |-> 60000],
                               [current_emi |-> 0, principal |-> 3] }, 1),
             go \in SeqsUpTo(GoalValues, 1),
             rule \in AIRules :
              fn_args = [fn       |-> "get_dashboard",
                         user     |-> [monthly_net_income |-> inc,
                                       ai_rules           |-> rule],
                         expenses |-> ex,
                         debts    |-> de,
                         goals    |-> go]

idle == << settings, dbvars, audit, req, served, updates, http >>

CallClassifyIntent ==
    /\ fn_ret = Null
    /\ fn_args.fn = "classify_intent"
    /\ fn_ret' = << classify_intent(fn_args.message) >>
    /\ UNCHANGED << idle, fn_args >>

CallIsIntentAllowed ==
    /\ fn_ret = Null
    /\ fn_args.fn = "is_intent_allowed"
    /\ fn_ret' = << is_intent_allowed(fn_args.intent, fn_args.is_regulated) >>
    /\ UNCHANGED << idle, fn_args >>

CallGenerateInsights ==
    /\ fn_ret = Null
    /\ fn_args.fn = "generate_insights"
    /\ fn_ret' = << generate_insights(fn_args.user, fn_args.expenses,
                                      fn_args.debts, fn_args.goals, Null) >>
    /\ UNCHANGED << idle, fn_args >>

CallEmi ==
    /\ fn_ret = Null
    /\ fn_args.fn = "emi"
    /\ fn_ret' = << emi(float(fn_args.principal), float(fn_args.annual_rate_pct),
                        fn_args.term_months) >>
    /\ UNCHANGED << idle, fn_args >>

CallPrincipalFromEmi ==
    /\ fn_ret = Null
    /\ fn_args.fn = "principal_from_emi"
    /\ fn_ret' = << principal_from_emi(fn_args.emi_amount,
                                       float(fn_args.annual_rate_pct),
                                       fn_args.term_months) >>
    /\ UNCHANGED << idle, fn_args >>

\* the instalment emi returned is given back to principal_from_emi
CallPrincipalFromEmiOfEmi ==
    /\ fn_args.fn = "emi"
    /\ fn_ret # Null
    /\ ~val(fn_ret).raised
    /\ fn_args' = [fn              |-> "principal_from_emi",
                   emi_amount      |-> val(fn_ret).value,
                   annual_rate_pct |-> fn_args.annual_rate_pct,
                   term_months     |-> fn_args.term_months,
                   emi_of          |-> fn_args.principal]
    /\ fn_ret' = << principal_from_emi(val(fn_ret).value,
                                       float(fn_args.annual_rate_pct),
                                       fn_args.term_months) >>
    /\ UNCHANGED idle

CallDti ==
    /\ fn_ret = Null
    /\ fn_args.fn = "dti"
    /\ fn_ret' = << returns(dti(float(fn_args.monthly_debt_payment),
                                float(fn_args.monthly_income))) >>
    /\ UNCHANGED << idle, fn_args >>

\* ai_rules = user.ai_rules, then build_user_context (routers/ai.py:37, 69)
CallBuildUserContext ==
    /\ fn_ret = Null
    /\ fn_args.fn = "build_user_context"
    /\ fn_ret' = << build_user_context(fn_args.user, fn_args.expenses,
                                       fn_args.debts, fn_args.goals,
                                       fn_args.user.ai_rules) >>
    /\ UNCHANGED << idle, fn_args >>

\* the same user asks again, with other records stored by then
CallBuildUserContextAgain ==
    /\ fn_args.fn = "build_user_context"
    /\ fn_ret # Null
    /\ "first" \notin DOMAIN fn_args
    /\ \E ex \in ContextExpenses, de \in ContextDebts, go \in ContextGoals :
          /\ fn_args' = [fn       |-> "build_user_context",
                         user     |-> fn_args.user,
                         expenses |-> ex,
                         debts    |-> de,
                         goals    |-> go,
                         first    |-> [expenses |-> fn_args.expenses,
                                       debts    |-> fn_args.debts,
                                       goals    |-> fn_args.goals,
                                       ret      |-> val(fn_ret)]]
          /\ fn_ret' = << build_user_context(fn_args.user, ex, de, go,
                                             fn_args.user.ai_rules) >>
    /\ UNCHANGED idle

\* a calculation endpoint: the framework validates the body against the
\* request schema and enters the handler only with a valid request
CallLoanPreAssessment ==
    /\ fn_ret = Null
    /\ fn_args.fn = "loan_pre_assessment"
    /\ LET request == LoanPreAssessmentRequest(fn_args.body) IN
       fn_ret' = << IF request.raised THEN request
                    ELSE loan_pre_assessment(request.value) >>
    /\ UNCHANGED << idle, fn_args >>

CallLoanPayoffPlan ==
    /\ fn_ret = Null
    /\ fn_args.fn = "loan_payoff_plan"
    /\ LET request == LoanPayoffPlanRequest(fn_args.body) IN
       fn_ret' = << IF request.raised THEN request
                    ELSE loan_payoff_plan(request.value) >>
    /\ UNCHANGED << idle, fn_args >>

CallInflationForecast ==
    /\ fn_ret = Null
    /\ fn_args.fn = "inflation_forecast"
    /\ LET request == InflationForecastRequest(fn_args.body) IN
       fn_ret' = << IF request.raised THEN request
                    ELSE inflation_forecast(request.value) >>
    /\ UNCHANGED << idle, fn_args >>

CallGetDashboard ==
    /\ fn_ret = Null
    /\ fn_args.fn = "get_dashboard"
    /\ fn_ret' = << get_dashboard(fn_args.user, fn_args.expenses, fn_args.debts,
                                  fn_args.goals) >>
    /\ UNCHANGED << idle, fn_args >>

NextFn ==
    \/ CallClassifyIntent
    \/ CallIsIntentAllowed
    \/ CallGenerateInsights
    \/ CallEmi
    \/ CallPrincipalFromEmi
    \/ CallPrincipalFromEmiOfEmi
    \/ CallDti
    \/ CallBuildUserContext
    \/ CallBuildUserContextAgain
    \/ CallLoanPreAssessment
    \/ CallLoanPayoffPlan
    \/ CallInflationForecast
    \/ CallGetDashboard

SpecFn == InitFn /\ [][NextFn]_vars

-----------------------------------------------------------------------------
(* Requests of two users against one database: /ai/ask and /calc/dashboard *)

\* what one user has stored by the time the requests arrive: the income and
\* the bodies they have posted to /profile/expenses, /debts and /goals
Households ==
    { [ income  |-> << 3 >>, expense |-> Null, debt |-> Null, goal |-> Null,
        rule    |-> Null ],
      [ income  |-> << 5 >>,
        expense |-> [name |-> "rent", amount |-> 2, type |-> "fixed"],
        debt    |-> [name |-> "car loan", principal |-> 3, annual_rate_pct |-> 0,
                     term_months |-> 1, current_emi |-> 1],
        goal    |-> [name |-> "hajj", target_amount |-> 4],
        rule    |-> [fun_ratio |-> 30] ],
      [ income  |-> Null,
        expense |-> [name |-> "food", amount |-> 1, type |-> "variable"],
        debt    |-> Null, goal |-> Null, rule |-> Null ] }

\* GET /calc/dashboard by user u; an exception leaving the handler is a 500
GetDashboard(u) ==
    LET result == get_dashboard(users[u],
                                filter_by_user(expenses, u),
                                filter_by_user(debts, u),
                                filter_by_user(goals, u))
    IN  /\ http' = [op     |-> "get_dashboard",
                    status |-> IF result.raised THEN 500 ELSE 200,
                    user   |-> u,
                    result |-> result]
        /\ UNCHANGED << settings, dbvars, audit, req, served, updates,
                        fn_args, fn_ret >>

InitRequests ==
    /\ \E provider \in { P_openai, P_huggingface }, key \in { "", "sk-test" } :
          settings = [ AI_PROVIDER |-> provider, AI_BASE_URL |-> "",
                       AI_MODEL |-> "tiiuae/falcon-7b-instruct",
                       AI_API_KEY |-> key, IS_REGULATED_PARTNER |-> FALSE ]
    /\ \E h \in [{1, 2} -> Households] :
          /\ users = [u \in {1, 2} |->
                        [monthly_net_income |-> h[u].income,
                         risk_tolerance     |-> Null]]
          /\ LET first == IF h[1].expense = Null THEN << >>
                          ELSE create_expense(1, h[1].expense, << >>).table
             IN  expenses = IF h[2].expense = Null THEN first
                            ELSE create_expense(2, h[2].expense, first).table
          /\ LET first == IF h[1].debt = Null THEN << >>
                          ELSE create_debt(1, h[1].debt, << >>).table
             IN  debts = IF h[2].debt = Null THEN first
                         ELSE create_debt(2, h[2].debt, first).table
          /\ LET first == IF h[1].goal = Null THEN << >>
                          ELSE create_goal(1, h[1].goal, << >>).table
             IN  goals = IF h[2].goal = Null THEN first
                         ELSE create_goal(2, h[2].goal, first).table
          /\ ai_rules = [u \in {1, 2} |-> h[u].rule]
    /\ audit = << >>
    /\ req = IdleReq
    /\ served = 0
    /\ updates = 0
    /\ http = NoRequest
    /\ fn_args = Null
    /\ fn_ret = Null

NextRequests ==
    \/ \E u \in DOMAIN users, question \in Questions : AskAi(u, question)
    \/ \E u \in DOMAIN users : GetDashboard(u)
    \/ \E response \in Responses : BackendRespond(response)
    \/ BackendRetry
    \/ BackendGiveUp
    \/ BackendWait

SpecRequests == InitRequests /\ [][NextRequests]_vars

\* the two users deleting from what they have stored, by any id
NextDeletes ==
    \/ \E u \in DOMAIN users, id \in 1..(MaxId + 1) : DeleteExpense(u, id)
    \/ \E u \in DOMAIN users, id \in 1..(MaxId + 1) : DeleteDebt(u, id)
    \/ \E u \in DOMAIN users, id \in 1..(MaxId + 1) : DeleteGoal(u, id)

SpecDeletes == InitRequests /\ [][NextDeletes]_vars

-----------------------------------------------------------------------------
(* main.py: the application and the routes it serves *)

\* routers/ai.py: APIRouter(prefix="/ai") and its routes
ai_router ==
    { [method |-> "POST", path |-> <<"ai", "ask">>, endpoint |-> "ask_ai"] }

\* routers/calc.py: APIRouter(prefix="/calc")
calc_router ==
    { [method |-> "POST", path |-> <<"calc", "loan-pre-assessment">>,
       endpoint |-> "loan_pre_assessment"],
      [method |-> "POST", path |-> <<"calc", "loan-payoff-plan">>,
       endpoint |-> "loan_payoff_plan"],
      [method |-> "POST", path |-> <<"calc", "inflation-forecast">>,
       endpoint |-> "inflation_forecast"],
      [method |-> "GET", path |-> <<"calc", "dashboard">>,
       endpoint |-> "get_dashboard"] }

\* routers/profile.py: APIRouter(prefix="/profile"), the profile itself
profile_router ==
    { [method |-> "GET", path |-> <<"profile">>, endpoint |-> "get_profile"],
      [method |-> "POST", path |-> <<"profile">>, endpoint |-> "update_profile"] }

\* routers/auth.py: APIRouter(prefix="/auth")
auth_router ==
    { [method |-> "POST", path |-> <<"auth", "register">>, endpoint |-> "register"],
      [method |-> "POST", path |-> <<"auth", "login">>, endpoint |-> "login"],
      [method |-> "POST", path |-> <<"auth", "logout">>, endpoint |-> "logout"],
      [method |-> "GET", path |-> <<"auth", "me">>, endpoint |-> "get_me"] }

\* app.include_router(<module>.router, prefix="/api"), one call per module;
\* routers/data.py is not part of the sources and none of its routes is here
included_routers == << auth_router, profile_router, calc_router >>

\* the route table of the application
app_routes ==
    UNION { { [method   |-> r.method,
               path     |-> <<"api">> \o r.path,
               endpoint |-> r.endpoint] : r \in included_routers[k] }
            : k \in 1..Len(included_routers) }

\* requests sent to the application
Requests ==
    { [method |-> "POST", path |-> <<"api", "ai", "ask">>],
      [method |-> "POST", path |-> <<"ai", "ask">>],
      [method |-> "POST", path |-> <<"api", "profile">>],
      [method |-> "GET",  path |-> <<"api", "calc", "dashboard">>] }

\* The application serves a request of user u: the route that matches method
\* and path runs its endpoint, and without one the answer is 404.
Serve(u, request) ==
    LET matches == { r \in app_routes :
                        r.method = request.method /\ r.path = request.path }
    IN  IF matches = { }
        THEN /\ http' = [op     |-> "not_found",
                         status |-> 404,
                         method |-> request.method,
                         path   |-> request.path]
             /\ UNCHANGED << settings, dbvars, audit, req, served, updates,
                             fn_args, fn_ret >>
        ELSE LET endpoint == (CHOOSE r \in matches : TRUE).endpoint IN
             \/ endpoint = "ask_ai"
                /\ \E question \in Questions : AskAi(u, question)
             \/ endpoint = "get_dashboard"
                /\ GetDashboard(u)
             \/ endpoint = "update_profile"
                /\ \E update_data \in ProfileUpdates : UpdateProfile(u, update_data)

NextApp == \E u \in DOMAIN users, request \in Requests : Serve(u, request)

SpecApp == InitRequests /\ [][NextApp]_vars

-----------------------------------------------------------------------------
(* Properties of the guardrail core *)

\* the three regulated categories, written out
RegulatedCategories ==
    { "loan_approval_request", "ekyc_request", "cib_access_request" }

\* C1: in educational mode (regulated mode off) a question classified into a
\* regulated category never gets an AIProvider constructed, a context built or
\* a backend called; the request ends with is_blocked = true and the fixed
\* refusal text, whatever provider is configured.
C1_BlockedNeverReachesProvider ==
    (req.pc # "idle" /\ ~settings.IS_REGULATED_PARTNER
        /\ req.intent \in RegulatedCategories)
    => /\ req.provider = Null
       /\ req.context = Null
       /\ req.call = Null
       /\ req.gen = Null
       /\ req.pc = "done"
       /\ req.response.is_blocked = TRUE
       /\ req.response.answer = REFUSAL

\* a credit-bureau question was refused although a backend is fully configured
C1_Witness ==
    /\ req.pc = "done"
    /\ ~settings.IS_REGULATED_PARTNER
    /\ req.intent = "cib_access_request"
    /\ settings.AI_API_KEY # ""
    /\ settings.AI_MODEL # ""

\* C2: is_intent_allowed returns False exactly for a regulated category with
\* the regulated flag off, and True for every other (intent, flag) pair of the
\* enumeration, UNKNOWN included.
C2_GateTruthTable ==
    (fn_args.fn = "is_intent_allowed" /\ fn_ret # Null)
    => val(fn_ret) = ~(fn_args.intent \in RegulatedCategories
                        /\ ~fn_args.is_regulated)

\* the gate was applied to e-KYC with the regulated flag off
C2_Witness ==
    /\ fn_args.fn = "is_intent_allowed"
    /\ fn_args.intent = "ekyc_request"
    /\ ~fn_args.is_regulated
    /\ fn_ret # Null

\* every keyword of the three blocked groups
BlockedKeywords ==
    { LOAN_APPROVAL_WORDS[k] : k \in 1..Len(LOAN_APPROVAL_WORDS) }
    \cup { EKYC_WORDS[k] : k \in 1..Len(EKYC_WORDS) }
    \cup { CIB_WORDS[k] : k \in 1..Len(CIB_WORDS) }

\* C3: classification is fail-closed: a message containing a blocked-group
\* keyword in any letter case is classified into a blocked category, whatever
\* allowed-group keywords it also contains and wherever they stand.
C3_FailClosed ==
    (fn_args.fn = "classify_intent" /\ fn_ret # Null
        /\ \E w \in BlockedKeywords : contains(lower(fn_args.message), w))
    => val(fn_ret) \in RegulatedCategories

\* "budget" first, then "Credit Score" in capitals, then "loan"
C3_Witness ==
    /\ fn_args.fn = "classify_intent"
    /\ fn_ret # Null
    /\ fn_args.message =
          <<"b", "u", "d", "g", "e", "t",
            "C", "r", "e", "d", "i", "t", " ", "S", "c", "o", "r", "e",
            "l", "o", "a", "n">>

IsAiEvent(e) == e.action \in { "ai_request_blocked", "ai_request_answered" }

\* C4: every gate decision of ask_ai, allow or deny, leaves exactly one audit
\* event: 'ai_request_blocked' on deny, 'ai_request_answered' on allow, with the
\* classified intent and the redacted question, on every path after the decision.
C4_EveryDecisionAudited ==
    LET ai_events == SelectSeq(audit, IsAiEvent)
        pending   == IF req.pc = "calling" THEN 1 ELSE 0
    IN  /\ Len(ai_events) = served - pending
        /\ req.pc \in { "done", "error" } =>
              LET e == ai_events[Len(ai_events)] IN
              /\ e.action = IF req.allowed THEN "ai_request_answered"
                                           ELSE "ai_request_blocked"
              /\ e.user_id = req.user
              /\ e.payload.intent = req.intent
              /\ e.payload.question = redact_pii(req.question)

\* C5: ask_ai always ends with a success-shaped AIInsight {answer, intent,
\* is_blocked, meta}, blocked, answered or fallback, never with an error, and
\* is_blocked is true exactly when the gate denied the intent.
C5_AlwaysSuccessShaped ==
    req.pc \notin { "idle", "calling" }
    => /\ req.pc = "done"
       /\ DOMAIN req.response = AIInsight_fields
       /\ req.response.intent = req.intent
       /\ req.response.is_blocked = ~req.allowed
       /\ req.response.is_blocked => req.response.answer = REFUSAL
       /\ ~req.response.is_blocked => req.response.answer = req.gen.value

\* C6: an unconfigured provider's generate_response never raises, returns a
\* non-empty text for every question and context, and makes no backend call.
C6_UnconfiguredNeverFails ==
    (req.provider # Null /\ req.context # Null /\ ~req.provider.is_configured)
    => /\ req.gen # Null
       /\ ~req.gen.raised
       /\ req.gen.value # << >>
       /\ req.call = Null
       /\ req.io = NoIO
       /\ req.pc = "done"

\* a question with no keyword at all was answered offline
C6_Witness ==
    /\ req.pc = "done"
    /\ req.intent = "unknown"
    /\ req.allowed
    /\ ~req.provider.is_configured
    /\ req.gen # Null

\* C7: a configured provider's generate_response never raises: a missing
\* client library, a connection or timeout error, a response without choices
\* and a choice whose content is missing or null all end in a returned text.
C7_ConfiguredNeverRaises ==
    (req.provider # Null /\ req.provider.is_configured)
    => /\ req.pc = "error" => req.gen = Null
       /\ req.gen # Null =>
             /\ ~req.gen.raised
             /\ req.pc = "done"
             /\ req.response.answer = req.gen.value

\* the Hugging Face backend answered with a choice whose content is null
C7_Witness ==
    /\ req.pc = "done"
    /\ req.call # Null
    /\ req.call.variant = "huggingface"
    /\ req.io.kind = "response"
    /\ req.io.response.choices # << >>
    /\ "content" \in DOMAIN req.io.response.choices[1].message
    /\ req.io.response.choices[1].message.content = Null

\* C8: every backend call of a configured provider, OpenAI-compatible or
\* Hugging Face, is made with the configured timeout and retry budget, so it
\* fails at most AI_MAX_RETRIES + 1 times and never outlives its deadline.
C8_EveryCallBounded ==
    req.call # Null
    => /\ req.call.timeout = << AI_TIMEOUT >>
       /\ req.call.max_retries = << AI_MAX_RETRIES >>
       /\ req.attempts <= AI_MAX_RETRIES
       /\ req.waited = 0

\* C9: for every provider name, is_configured holds exactly when API key and
\* model are both non-empty; without them active_provider is 'mock', the answer
\* is one of the offline paragraphs and no backend is selected.
C9_DegradesToMock ==
    req.provider # Null
    => LET creds == settings.AI_API_KEY # "" /\ settings.AI_MODEL # "" IN
       /\ req.provider.is_configured = creds
       /\ ~creds =>
             /\ req.provider.active_provider = P_mock
             /\ req.call = Null
             /\ req.io = NoIO
             /\ req.gen # Null =>
                   /\ ~req.gen.raised
                   /\ req.gen.value \in
                         { MOCK_BUDGET, MOCK_LOAN, MOCK_GOAL, MOCK_GENERIC }
       /\ (req.call # Null \/ req.io # NoIO) => creds
       /\ creds => req.provider.active_provider = req.provider.provider

\* an API key is set, the model is empty, and a question was answered
C9_Witness ==
    /\ req.pc = "done"
    /\ req.provider # Null
    /\ settings.AI_API_KEY # ""
    /\ settings.AI_MODEL = ""
    /\ req.gen # Null

IsDeficit(i) ==
    /\ "title" \in DOMAIN i
    /\ i.title = "Budget Deficit"
    /\ i.severity = "critical"

IsPositiveCashFlow(i) ==
    /\ "title" \in DOMAIN i
    /\ i.title = "Positive Cash Flow"
    /\ i.severity = "info"

\* C10: generate_insights returns exactly one critical budget-deficit insight
\* when surplus < 0, exactly one info positive-cash-flow insight when
\* surplus > 0, never both, and neither when surplus = 0.
C10_BudgetInsightBySign ==
    (fn_args.fn = "generate_insights" /\ fn_ret # Null)
    => LET r == val(fn_ret)
           surplus ==
               val(fn_args.user.monthly_net_income)
               - sum([i \in 1..Len(fn_args.expenses) |-> fn_args.expenses[i].amount])
               - sum([i \in 1..Len(fn_args.debts) |-> fn_args.debts[i].current_emi])
       IN  /\ ~r.raised
           /\ Cardinality({ i \in 1..Len(r.value) : IsDeficit(r.value[i]) })
                 = IF surplus < 0 THEN 1 ELSE 0
           /\ Cardinality({ i \in 1..Len(r.value) : IsPositiveCashFlow(r.value[i]) })
                 = IF surplus > 0 THEN 1 ELSE 0

-----------------------------------------------------------------------------
(* Properties of the stored profile *)

\* C15: after any sequence of profile operations the stored monthly net income
\* of every user is a number, never null, and is >= 0.
C15_IncomeNonNegativeNumber ==
    \A u \in DOMAIN users :
        /\ users[u].monthly_net_income # Null
        /\ val(users[u].monthly_net_income) >= 0

\* what the data-model invariants ask of a body sent to a create endpoint
ExpenseInvariant(r) == r.amount >= 0

DebtInvariant(r) ==
    /\ r.principal >= 0
    /\ r.annual_rate_pct >= 0
    /\ r.term_months >= 1
    /\ r.current_emi >= 0

GoalInvariant(r) ==
    /\ r.target_amount >= 0
    /\ "saved_amount" \in DOMAIN r => r.saved_amount >= 0

\* C16: every stored expense, debt and goal satisfies the data-model
\* invariants (amount >= 0; principal >= 0, rate >= 0, term >= 1, EMI >= 0;
\* target >= 0, saved >= 0), and a create request that would violate one is
\* answered with an error status and leaves its table as it was.
C16_StoredRecordsValid ==
    /\ \A i \in 1..Len(expenses) : ExpenseInvariant(expenses[i])
    /\ \A i \in 1..Len(debts) : DebtInvariant(debts[i])
    /\ \A i \in 1..Len(goals) :
          goals[i].target_amount >= 0 /\ goals[i].saved_amount >= 0
    /\ \A u \in DOMAIN users :
          /\ \A b \in ExpenseBodies : ~ExpenseInvariant(b) =>
                LET r == create_expense(u, b, expenses) IN
                r.status >= 400 /\ r.table = expenses
          /\ \A b \in DebtBodies : ~DebtInvariant(b) =>
                LET r == create_debt(u, b, debts) IN
                r.status >= 400 /\ r.table = debts
          /\ \A b \in GoalBodies : ~GoalInvariant(b) =>
                LET r == create_goal(u, b, goals) IN
                r.status >= 400 /\ r.table = goals
    /\ http.op \in { "create_expense", "create_debt", "create_goal" } =>
          http.status \in { 201, 422 }

\* a debt is stored and a later create_debt request was rejected
C16_Witness ==
    /\ debts # << >>
    /\ http.op = "create_debt"
    /\ http.status = 422
    /\ Len(debts) = 1

-----------------------------------------------------------------------------
(* Properties of the formula library *)

\* C13: emi fails with InvalidInputError exactly when term_months < 1 or
\* principal < 0, and for every other input returns a value without dividing
\* by zero; for rate 0 the value is exactly principal / term_months, and for
\* positive principal it is positive.
C13_EmiTotalOutsideInvalidInput ==
    (fn_args.fn = "emi" /\ fn_ret # Null)
    => LET r       == val(fn_ret)
           invalid == fn_args.term_months < 1 \/ fn_args.principal < 0
       IN  /\ r.raised <=> invalid
           /\ r.raised => r.exc = "InvalidInputError"
           /\ (~invalid /\ fn_args.annual_rate_pct = 0) =>
                 r.value.n * fn_args.term_months = fn_args.principal * r.value.d
           /\ (~invalid /\ fn_args.principal > 0) => r.value.n > 0

\* C13 as amended: emi fails with InvalidInputError exactly when
\* term_months < 1 or principal < 0; for every other input whose
\* annual_rate_pct is >= 0 it returns a value without dividing by zero, exactly
\* principal / term_months at rate 0 and positive for positive principal.
C13_EmiTotalForNonNegativeRate ==
    (fn_args.fn = "emi" /\ fn_ret # Null)
    => LET r       == val(fn_ret)
           invalid == fn_args.term_months < 1 \/ fn_args.principal < 0
       IN  /\ (r.raised /\ r.exc = "InvalidInputError") <=> invalid
           /\ (~invalid /\ fn_args.annual_rate_pct >= 0) =>
                 /\ ~r.raised
                 /\ fn_args.annual_rate_pct = 0 =>
                       r.value.n * fn_args.term_months = fn_args.principal * r.value.d
                 /\ fn_args.principal > 0 => r.value.n > 0

\* emi(3, 0, 2) was computed
C13_Witness ==
    /\ fn_args.fn = "emi"
    /\ fn_ret # Null
    /\ fn_args.principal = 3
    /\ fn_args.annual_rate_pct = 0
    /\ fn_args.term_months = 2
    /\ ~val(fn_ret).raised

\* C14: for principal P > 0, rate >= 0 and term n >= 1,
\* principal_from_emi(emi(P, r, n), r, n) gives P back, and at rate 0
\* principal_from_emi(e, 0, n) is exactly e * n.
C14_PrincipalFromEmiInvertsEmi ==
    (fn_args.fn = "principal_from_emi" /\ fn_ret # Null)
    => LET r == val(fn_ret) IN
       /\ ("emi_of" \in DOMAIN fn_args /\ fn_args.emi_of > 0
              /\ fn_args.annual_rate_pct >= 0 /\ fn_args.term_months >= 1)
          => (~r.raised /\ r.value = [n |-> fn_args.emi_of, d |-> 1])
       /\ fn_args.annual_rate_pct = 0
          => /\ ~r.raised
             /\ r.value.d * fn_args.emi_amount.n * fn_args.term_months
                   = r.value.n * fn_args.emi_amount.d

\* the instalment of a principal of 2 over 3 months at a monthly rate of 1/2
\* was turned back into a principal
C14_Witness ==
    /\ fn_args.fn = "principal_from_emi"
    /\ fn_ret # Null
    /\ "emi_of" \in DOMAIN fn_args
    /\ fn_args.emi_of = 2
    /\ fn_args.annual_rate_pct = 600
    /\ fn_args.term_months = 3
    /\ fn_args.emi_amount = [n |-> 27, d |-> 19]

-----------------------------------------------------------------------------
(* Properties of the calculation endpoints *)

\* C11: get_dashboard yields surplus = income - total expenses - total debt
\* EMI, safe_to_spend = surplus minus 20% of surplus when surplus is positive
\* and 0 otherwise (never negative), and dti = total debt EMI / income; for
\* income 50000, expenses 30000 and debt EMI 5000 it yields surplus 15000,
\* safe_to_spend 12000 and dti 0.1.
C11_DashboardFigures ==
    (fn_args.fn = "get_dashboard" /\ fn_ret # Null
        /\ fn_args.user.monthly_net_income # Null)
    => LET r       == val(fn_ret)
           income  == val(fn_args.user.monthly_net_income)
           spent   == sum([i \in 1..Len(fn_args.expenses) |-> fn_args.expenses[i].amount])
           debt    == sum([i \in 1..Len(fn_args.debts) |-> fn_args.debts[i].current_emi])
           surplus == income - spent - debt
       IN  /\ ~r.raised
           /\ r.value.surplus = [n |-> surplus, d |-> 1]
           /\ r.value.safe_to_spend.n >= 0
           /\ 5 * r.value.safe_to_spend.n
                 = (IF surplus > 0 THEN 4 * surplus ELSE 0) * r.value.safe_to_spend.d
           /\ income > 0 =>
                 r.value.dti.n * income = debt * r.value.dti.d
           /\ (income = 50000 /\ spent = 30000 /\ debt = 5000) =>
                 /\ r.value.surplus = [n |-> 15000, d |-> 1]
                 /\ r.value.safe_to_spend = [n |-> 12000, d |-> 1]
                 /\ r.value.dti = [n |-> 1, d |-> 10]

\* the response fields each calculation endpoint declares
ResponseFields ==
    [ loan_pre_assessment |-> LoanPreAssessmentResponse_fields,
      loan_payoff_plan    |-> LoanPayoffPlanResponse_fields,
      inflation_forecast  |-> InflationForecastResponse_fields,
      get_dashboard       |-> DashboardSummary_fields ]

\* C12: each calculation endpoint either succeeds with a response that has
\* exactly the fields of its declared response schema or fails with an
\* input-validation error, and with nothing else.
C12_CalcSucceedsOrRejectsInput ==
    (fn_args.fn \in DOMAIN ResponseFields /\ fn_ret # Null)
    => LET r == val(fn_ret) IN
       IF r.raised
       THEN r.exc \in { "RequestValidationError", "InvalidInputError" }
       ELSE DOMAIN r.value = ResponseFields[fn_args.fn]

-----------------------------------------------------------------------------
(* Properties of the classifier, the provider and the insights *)

\* the check order of the claim: category, then the keywords of its group
CheckOrder ==
    << [category |-> "loan_approval_request", words |-> LOAN_APPROVAL_WORDS],
       [category |-> "ekyc_request",          words |-> EKYC_WORDS],
       [category |-> "cib_access_request",    words |-> CIB_WORDS],
       [category |-> "budget_help",           words |-> BUDGET_WORDS],
       [category |-> "loan_question",         words |-> LOAN_WORDS],
       [category |-> "goal_planning",         words |-> GOAL_WORDS],
       [category |-> "spending_query",        words |-> SPENDING_WORDS],
       [category |-> "general_advice",        words |-> ADVICE_WORDS] >>

\* C17: classify_intent returns the category of the first group, in the order
\* loan-approval, e-KYC, credit-bureau, budget-help, loan-question,
\* goal-planning, spending-query, general-advice, that has a keyword occurring
\* in the lower-cased message, and UNKNOWN exactly when no group has one.
C17_FirstMatchingGroup ==
    (fn_args.fn = "classify_intent" /\ fn_ret # Null)
    => LET hits == { k \in 1..Len(CheckOrder) :
                       \E w \in 1..Len(CheckOrder[k].words) :
                           contains(lower(fn_args.message), CheckOrder[k].words[w]) }
       IN  /\ hits = { } <=> val(fn_ret) = "unknown"
           /\ hits # { } =>
                 val(fn_ret) =
                     CheckOrder[CHOOSE k \in hits : \A j \in hits : k <= j].category

\* "goal" typed before "loan": the loan group is checked first
C17_Witness ==
    /\ fn_args.fn = "classify_intent"
    /\ fn_args.message = <<"g", "o", "a", "l", "l", "o", "a", "n">>
    /\ fn_ret = << "loan_question" >>

\* the exception a failed backend call raised inside the try block
FailureOf(io) == IF io.kind = "import_error" THEN "ImportError" ELSE io.exc

C19_MockFollowsClassifier ==
    (req.gen # Null /\ req.provider # Null /\ ~req.provider.is_configured)
    => /\ ~req.gen.raised
       /\ req.intent = "budget_help" => req.gen.value = MOCK_BUDGET
       /\ req.intent = "loan_question" => req.gen.value = MOCK_LOAN
       /\ req.intent = "goal_planning" => req.gen.value = MOCK_GOAL
       /\ req.intent \in { "spending_query", "general_advice", "unknown" }
             => req.gen.value = MOCK_GENERIC

IsHighDti(i) ==
    /\ "title" \in DOMAIN i
    /\ i.title = "High Debt-to-Income Ratio"
    /\ i.severity = "warning"

\* C20: generate_insights emits the high-DTI insight, with severity 'warning',
\* exactly when total debt EMI / monthly income > 0.40, a fixed threshold, and
\* does not divide by zero when income is 0.
C20_HighDtiAboveFortyPercent ==
    (fn_args.fn = "generate_insights" /\ fn_ret # Null)
    => LET r      == val(fn_ret)
           income == val(fn_args.user.monthly_net_income)
           debt   == sum([i \in 1..Len(fn_args.debts) |-> fn_args.debts[i].current_emi])
       IN  /\ ~r.raised
           /\ Cardinality({ i \in 1..Len(r.value) : IsHighDti(r.value[i]) })
                 = IF income > 0 /\ 10 * debt > 4 * income THEN 1 ELSE 0

IsGoalInsight(i) ==
    /\ "title" \in DOMAIN i
    /\ i.type = "goal"
    /\ i.severity = "info"

\* the goals of a list that lag: target > 0 and saved / target < 25%
IsLagging(goal) ==
    goal.target_amount > 0 /\ 100 * goal.saved_amount < 25 * goal.target_amount

\* C21: generate_insights emits a goal-lag 'info' insight for a goal exactly
\* when the goal is among the first three of the caller's list, has target > 0
\* and saved / target < 25%; goals at position four or later never produce
\* one, so at most three are emitted and they appear in the caller's order.
C21_GoalLagFirstThree ==
    (fn_args.fn = "generate_insights" /\ fn_ret # Null)
    => LET r        == val(fn_ret)
           top      == SubSeq(fn_args.goals, 1,
                              IF Len(fn_args.goals) < 3 THEN Len(fn_args.goals) ELSE 3)
           expected == SelectSeq(top, IsLagging)
       IN  /\ ~r.raised
           /\ LET emitted == SelectSeq(r.value, IsGoalInsight) IN
              /\ Len(emitted) <= 3
              /\ Len(emitted) = Len(expected)
              /\ \A k \in 1..Len(emitted) :
                    emitted[k].title = << "Goal", expected[k].name >>

IsPrepayment(i) ==
    /\ "title" \in DOMAIN i
    /\ i.title = "Prepayment Opportunity"
    /\ i.severity = "info"

\* C22: generate_insights emits the prepayment-opportunity 'info' insight
\* exactly when surplus > half of total debt EMI and the debt list is not
\* empty; it is always the last insight, after the budget, DTI and goal
\* insights in that order, and it is never emitted together with the deficit
\* insight.
C22_PrepaymentLastAndNeverWithDeficit ==
    (fn_args.fn = "generate_insights" /\ fn_ret # Null)
    => LET r       == val(fn_ret)
           debt    == sum([i \in 1..Len(fn_args.debts) |-> fn_args.debts[i].current_emi])
           surplus ==
               val(fn_args.user.monthly_net_income)
               - sum([i \in 1..Len(fn_args.expenses) |-> fn_args.expenses[i].amount])
               - debt
           due     == 2 * surplus > debt /\ fn_args.debts # << >>
           rank(i) == IF IsDeficit(i) \/ IsPositiveCashFlow(i) THEN 1
                      ELSE IF IsHighDti(i) THEN 2
                      ELSE IF IsGoalInsight(i) THEN 3
                      ELSE 4
       IN  /\ ~r.raised
           /\ Cardinality({ i \in 1..Len(r.value) : IsPrepayment(r.value[i]) })
                 = IF due THEN 1 ELSE 0
           /\ due => IsPrepayment(r.value[Len(r.value)])
           /\ \A i, j \in 1..Len(r.value) :
                 i < j => rank(r.value[i]) <= rank(r.value[j])
           /\ ~ \E i, j \in 1..Len(r.value) :
                 IsPrepayment(r.value[i]) /\ IsDeficit(r.value[j])

-----------------------------------------------------------------------------
(* Properties of the dashboard, the ratio and the fun budget *)

\* C23: for every record set that satisfies the data-model invariants,
\* get_dashboard divides by zero nowhere: debt_payoff_eta_months is null
\* exactly when the total EMI is 0 and is otherwise the whole months of total
\* remaining principal / total EMI, goal progress is 0 when the total target
\* is 0, and DTI is 0 when income is 0.
C23_DashboardGuardsEveryDivision ==
    (fn_args.fn = "get_dashboard" /\ fn_ret # Null
        /\ fn_args.user.monthly_net_income # Null
        /\ val(fn_args.user.monthly_net_income) >= 0)
    => LET r         == val(fn_ret)
           income    == val(fn_args.user.monthly_net_income)
           debt      == sum([i \in 1..Len(fn_args.debts) |-> fn_args.debts[i].current_emi])
           principal == sum([i \in 1..Len(fn_args.debts) |-> fn_args.debts[i].principal])
           target    == sum([i \in 1..Len(fn_args.goals) |-> fn_args.goals[i].target_amount])
       IN  /\ ~r.raised
           /\ (r.value.debt_payoff_eta_months = Null) <=> (debt = 0)
           /\ debt > 0 => val(r.value.debt_payoff_eta_months) = principal \div debt
           /\ target = 0 => r.value.goal_progress_pct = [n |-> 0, d |-> 1]
           /\ income = 0 => r.value.dti = [n |-> 0, d |-> 1]

\* C24: dti(monthly_debt_payment, monthly_income) never raises: it returns 0
\* whenever income <= 0, is >= 0 for every debt >= 0 and income > 0, equals 0
\* when debt is 0, and lies in [0, 1] whenever 0 <= debt <= income; it is 0.2
\* for debt 10000 and income 50000.
C24_DtiTotalAndBounded ==
    (fn_args.fn = "dti" /\ fn_ret # Null)
    => LET r      == val(fn_ret)
           debt   == fn_args.monthly_debt_payment
           income == fn_args.monthly_income
       IN  /\ ~r.raised
           /\ r.value.d > 0
           /\ income <= 0 => r.value = [n |-> 0, d |-> 1]
           /\ (debt >= 0 /\ income > 0) => r.value.n >= 0
           /\ debt = 0 => r.value = [n |-> 0, d |-> 1]
           /\ (0 <= debt /\ debt <= income) =>
                 (0 <= r.value.n /\ r.value.n <= r.value.d)
           /\ income > 0 => r.value.n * income = debt * r.value.d
           /\ (debt = 10000 /\ income = 50000) => r.value = [n |-> 1, d |-> 5]

\* a debt on a negative income, and the scenario of the test
C24_Witness ==
    /\ fn_args.fn = "dti"
    /\ fn_ret # Null
    /\ \/ fn_args.monthly_debt_payment = 1 /\ fn_args.monthly_income = 0 - 1
          /\ val(fn_ret).value = [n |-> 0, d |-> 1]
       \/ fn_args.monthly_debt_payment = 10000 /\ fn_args.monthly_income = 50000
          /\ val(fn_ret).value = [n |-> 1, d |-> 5]

\* the override when the user has one (an override of 0 included), else the
\* global default
EffectiveFunRatio(user) ==
    IF user.ai_rules # Null THEN user.ai_rules.fun_ratio ELSE DEFAULT_FUN_RATIO

\* C25: the effective fun ratio is the user's override when one exists and the
\* global default only when none exists, and the fun budget reported for a
\* user is income x effective ratio both in the AI context
\* (build_user_context) and in the dashboard summary (get_dashboard).
C25_FunBudgetUsesEffectiveRatio ==
    (fn_args.fn \in { "build_user_context", "get_dashboard" } /\ fn_ret # Null
        /\ fn_args.user.monthly_net_income # Null)
    => LET r      == val(fn_ret)
           income == val(fn_args.user.monthly_net_income)
           ratio  == EffectiveFunRatio(fn_args.user)
       IN  /\ ~r.raised
           /\ fn_args.fn = "build_user_context" =>
                 /\ r.value.fun_ratio = ratio
                 /\ r.value.fun_budget = income * ratio
           /\ fn_args.fn = "get_dashboard" =>
                 r.value.fun_budget = round(frac(income * ratio, 100), 2)

-----------------------------------------------------------------------------
(* Properties of the grounding context *)

\* the aggregates of a record set that the claim lets the context depend on
Aggregates(records) ==
    [ total_expenses |-> sum([i \in 1..Len(records.expenses) |-> records.expenses[i].amount]),
      total_debt_emi |-> sum([i \in 1..Len(records.debts) |-> records.debts[i].current_emi]),
      goals          |-> Len(records.goals),
      goal_targets   |-> sum([i \in 1..Len(records.goals) |-> records.goals[i].target_amount]),
      goal_saved     |-> sum([i \in 1..Len(records.goals) |-> records.goals[i].saved_amount]) ]

\* C26: two record sets of the same user (same income, effective fun ratio and
\* risk tolerance) that agree on total expenses, total debt EMI, number of
\* goals, total goal target and total goal saved produce the identical
\* context from build_user_context, whatever the individual expense names
\* and amounts are.
C26_ContextCarriesAggregatesOnly ==
    (fn_args.fn = "build_user_context" /\ "first" \in DOMAIN fn_args
        /\ Aggregates(fn_args.first) = Aggregates(fn_args))
    => val(fn_ret) = fn_args.first.ret

\* one expense of 2 under one name against two expenses of 1 under two names
C26_Witness ==
    /\ fn_args.fn = "build_user_context"
    /\ "first" \in DOMAIN fn_args
    /\ fn_args.first.expenses = << [name |-> "food", amount |-> 2] >>
    /\ fn_args.expenses = << [name |-> "rent", amount |-> 1],
                             [name |-> "food", amount |-> 1] >>
    /\ fn_args.first.debts # fn_args.debts
    /\ fn_args.first.goals # fn_args.goals
    /\ Aggregates(fn_args.first) = Aggregates(fn_args)
    /\ ~val(fn_ret).raised
    /\ val(fn_ret).value.total_expenses = 2
    /\ val(fn_ret) = fn_args.first.ret

-----------------------------------------------------------------------------
(* Properties of requests by several users *)

\* the rows of a table that belong to user u
Own(table, u) ==
    LET belongs(row) == row.user_id = u IN SelectSeq(table, belongs)

\* the context of user u's own income, rows and override
OwnContext(u) ==
    build_user_context(users[u], Own(expenses, u), Own(debts, u), Own(goals, u),
                       ai_rules[u])

-----------------------------------------------------------------------------
(* Properties of the delete endpoints *)

\* what a delete of row id by user u may do to its table, to the audit trail
\* and to the status of the response
DeleteEffect(table, table_after, u, id, action) ==
    IF \E i \in 1..Len(table) : table[i].id = id /\ table[i].user_id = u
    THEN /\ http'.status = 204
         /\ \E i \in 1..Len(table) :
               /\ table[i].id = id
               /\ table[i].user_id = u
               /\ Len(table_after) = Len(table) - 1
               /\ \A j \in 1..Len(table_after) :
                     table_after[j] = IF j < i THEN table[j] ELSE table[j + 1]
         /\ audit' = Append(audit, [action  |-> action,
                                    user_id |-> u,
                                    payload |-> [id |-> id]])
    ELSE /\ http'.status = 404
         /\ table_after = table
         /\ audit' = audit

\* C28: delete_expense, delete_debt and delete_goal respect ownership: a call
\* by user u with an id that does not exist or that belongs to another user
\* returns 404, removes no record of any user and records no audit event; a
\* successful call removes exactly the one addressed record owned by u,
\* leaves every other record unchanged and records one '<kind>_deleted'
\* audit event.
C28_DeleteRespectsOwnership ==
    [][ \A u \in DOMAIN users, id \in 1..(MaxId + 1) :
          /\ DeleteExpense(u, id) =>
                /\ DeleteEffect(expenses, expenses', u, id, "expense_deleted")
                /\ UNCHANGED << users, debts, goals, ai_rules >>
          /\ DeleteDebt(u, id) =>
                /\ DeleteEffect(debts, debts', u, id, "debt_deleted")
                /\ UNCHANGED << users, expenses, goals, ai_rules >>
          /\ DeleteGoal(u, id) =>
                /\ DeleteEffect(goals, goals', u, id, "goal_deleted")
                /\ UNCHANGED << users, expenses, debts, ai_rules >> ]_vars

\* user 1 has deleted their expense 1, user 2's expense 2 is still stored, and
\* a later delete of a debt was refused
C28_Witness ==
    /\ audit = << [action |-> "expense_deleted", user_id |-> 1,
                   payload |-> [id |-> 1]] >>
    /\ Len(expenses) = 1
    /\ expenses[1].id = 2
    /\ expenses[1].user_id = 2
    /\ http = [op |-> "delete_debt", status |-> 404]
    /\ \E i \in 1..Len(debts) : debts[i].id = 1 /\ debts[i].user_id = 2

-----------------------------------------------------------------------------
(* Properties of the spending keywords *)

AFFORD == <<"a", "f", "f", "o", "r", "d">>

SAFE_TO_SPEND == <<"s", "a", "f", "e", " ", "t", "o", " ", "s", "p", "e", "n", "d">>

CAN_I_SPEND == <<"c", "a", "n", " ", "i", " ", "s", "p", "e", "n", "d">>

\* C29: the spending keywords 'safe to spend' and 'can i spend' are shadowed
\* by the earlier budget keyword 'spend': a message is classified
\* SPENDING_QUERY only if it contains 'afford' and no blocked, budget, loan or
\* goal keyword, and every message containing 'safe to spend' or
\* 'can i spend' is classified BUDGET_HELP or a blocked category.
C29_SpendingKeywordsShadowed ==
    (fn_args.fn = "classify_intent" /\ fn_ret # Null)
    => LET msg_lower == lower(fn_args.message) IN
       /\ val(fn_ret) = "spending_query" =>
             /\ contains(msg_lower, AFFORD)
             /\ ~any_in(msg_lower, LOAN_APPROVAL_WORDS \o EKYC_WORDS \o CIB_WORDS)
             /\ ~contains(msg_lower, <<"b", "u", "d", "g", "e", "t">>)
             /\ ~contains(msg_lower, <<"e", "x", "p", "e", "n", "s", "e">>)
             /\ ~contains(msg_lower, <<"s", "p", "e", "n", "d">>)
             /\ ~any_in(msg_lower, LOAN_WORDS \o GOAL_WORDS)
       /\ (contains(msg_lower, SAFE_TO_SPEND) \/ contains(msg_lower, CAN_I_SPEND)) =>
             val(fn_ret) \in { "budget_help" } \cup BLOCKED_INTENTS

\* 'Safe to spend' next to 'afford', classified as budget help
C29_Witness ==
    /\ fn_args.fn = "classify_intent"
    /\ fn_ret # Null
    /\ contains(lower(fn_args.message), SAFE_TO_SPEND)
    /\ contains(lower(fn_args.message), AFFORD)
    /\ val(fn_ret) = "budget_help"

-----------------------------------------------------------------------------
(* Properties of the application's routes *)

\* C30: the AI ask operation is exposed by the running application: the
\* routers that main mounts under /api contain the ai router, so that a
\* POST request to /api/ai/ask reaches ask_ai and is never answered with
\* 'not found'.
C30_AiAskIsMounted ==
    http.op = "not_found" =>
        ~(http.method = "POST" /\ http.path = <<"api", "ai", "ask">>)

====
